---------------------------- MODULE Spec2Model ----------------------------
(***************************************************************************)
(* Model of the skip-gram data pipeline and training loop of               *)
(* cube2/networks/multilingual_language_model.py.                          *)
(*                                                                         *)
(* Python floats are IEEE-754 doubles.  A double d with 2^-11 <= d < 2 (or *)
(* d = 0) is held exactly as the integer d * 2^64 written in five limbs,   *)
(* most significant first: limb 1 is the integer part, limbs 2..5 are the  *)
(* 64 fraction bits in groups of LimbBits.  Division and addition compute  *)
(* the exact result and round it to Mantissa significant bits, ties to     *)
(* even, as the hardware does.                                             *)
(***************************************************************************)
EXTENDS Integers, Sequences, FiniteSets, TLC

\* ------------------------------------------------------------------ bounds
MaxTokens == 6      \* tokens of a corpus (all files together)
MaxLines == 2       \* lines of a corpus (all files together)
MaxLangs == 2       \* corpus files loaded, one per language
MaxWin == 2         \* win_size of a SkipgramDataset
MaxCutoff == 2      \* w_cutoff of a SkipgramDataset
MaxDicts == 1       \* dictionary files loaded
MaxBatch == 2       \* batch_size of a get_next_batch call
DrawDenom == 4      \* random.random() yields the multiples of 1/DrawDenom
MaxPatience == 2    \* params.patience
MaxNLL == 2         \* validation losses are 1..MaxNLL or the initial best
MaxShuffle == 3     \* longest _train_idx whose shuffles are followed

\* --------------------------------------------------------------- constants
NSamples == 4       \* samples per anchor asked for by get_next_batch
BestInit == 9999    \* best_nll before the first evaluation
EvalEvery == 10000  \* batches between two evaluations inside an epoch

\* ------------------------------------------------------- IEEE-754 doubles
Mantissa == 53
LimbBits == 16
NumLimbs == 5

RECURSIVE Pow2(_)
Pow2(n) == IF n = 0 THEN 1 ELSE 2 * Pow2(n - 1)

LimbBase == Pow2(LimbBits)

\* number of fraction bits of the fixed-point form
FracBits == LimbBits * (NumLimbs - 1)

FZero == [i \in 1..NumLimbs |-> 0]
FOne == [i \in 1..NumLimbs |-> IF i = 1 THEN 1 ELSE 0]

\* position of the leading 1 bit: 0 for the integer bit, k for weight 2^-k
LeadPos(f) ==
    IF f[1] > 0 THEN 0
    ELSE CHOOSE k \in 1..LimbBits :
            /\ f[2] >= Pow2(LimbBits - k)
            /\ f[2] < Pow2(LimbBits - k + 1)

\* a + b * 2^-64 for a small integer b, carries propagated
RECURSIVE AddAt(_, _, _)
AddAt(f, i, b) ==
    IF b = 0 THEN f
    ELSE IF i = 1 THEN [f EXCEPT ![1] = f[1] + b]
    ELSE LET s == f[i] + b
         IN AddAt([f EXCEPT ![i] = s % LimbBase], i - 1, s \div LimbBase)

\* round an exact value (sticky = a non-zero part lies below the last limb)
\* to Mantissa significant bits, round-half-to-even
FRound(f, sticky) ==
    IF f = FZero THEN f
    ELSE LET p == LeadPos(f)
             r == FracBits - (p + Mantissa - 1)   \* bits to drop
             m == Pow2(r)
             last == f[NumLimbs]
             low == last % m
             half == m \div 2
             odd == (last \div m) % 2 = 1
             up == \/ low > half
                   \/ low = half /\ sticky
                   \/ low = half /\ ~sticky /\ odd
             trunc == [f EXCEPT ![NumLimbs] = last - low]
         IN IF r = 0 THEN f
            ELSE AddAt(trunc, NumLimbs, IF up THEN m ELSE 0)

\* the limbs of the exact quotient c / t (0 <= c <= t), with the remainder
RECURSIVE DivLimbs(_, _, _)
DivLimbs(rem, t, n) ==
    IF n = 0 THEN <<<<>>, rem>>
    ELSE LET d == (rem * LimbBase) \div t
             rest == DivLimbs((rem * LimbBase) % t, t, n - 1)
         IN <<(<<d>> \o rest[1]), rest[2]>>

\* Python's int / int: the correctly rounded double nearest to c / t
FDiv(c, t) ==
    LET q == DivLimbs(c % t, t, NumLimbs - 1)
    IN FRound(<<c \div t>> \o q[1], q[2] # 0)

\* the limbs of a + b, least significant limb computed first
RECURSIVE SumFrom(_, _, _)
SumFrom(a, b, i) ==
    \* carry out of limb i (1-based), 0 below the last limb
    IF i > NumLimbs THEN 0
    ELSE (a[i] + b[i] + SumFrom(a, b, i + 1)) \div LimbBase

\* Python's float + float
FAdd(a, b) ==
    FRound([i \in 1..NumLimbs |->
              IF i = 1 THEN a[i] + b[i] + SumFrom(a, b, 2)
              ELSE (a[i] + b[i] + SumFrom(a, b, i + 1)) % LimbBase], FALSE)

RECURSIVE FCmp(_, _, _)
FCmp(a, b, i) ==
    IF i > NumLimbs THEN 0
    ELSE IF a[i] < b[i] THEN -1
    ELSE IF a[i] > b[i] THEN 1
    ELSE FCmp(a, b, i + 1)

FLeq(a, b) == FCmp(a, b, 1) <= 0
FGeq(a, b) == FCmp(a, b, 1) >= 0
FLess(a, b) == FCmp(a, b, 1) < 0


\* ------------------------------------------------------------ input alphabet
Letters == {"a", "b", "c"}
Whitespace == {" ", "\n", "\t"}

\* ----------------------------------------------------------- list helpers
Max(a, b) == IF a >= b THEN a ELSE b
Min(a, b) == IF a <= b THEN a ELSE b

RECURSIVE Flatten(_)
Flatten(ss) == IF ss = <<>> THEN <<>> ELSE Head(ss) \o Flatten(Tail(ss))

RECURSIVE SumSeq(_)
SumSeq(s) == IF s = <<>> THEN 0 ELSE Head(s) + SumSeq(Tail(s))

\* Python's range(a, b) as a sequence
Range(a, b) == [k \in 1..Max(0, b - a) |-> a + k - 1]

\* str.strip(): leading and trailing whitespace removed
RECURSIVE LStrip(_)
LStrip(s) == IF s # <<>> /\ Head(s) \in Whitespace THEN LStrip(Tail(s)) ELSE s

RECURSIVE RStrip(_)
RStrip(s) ==
    IF s # <<>> /\ s[Len(s)] \in Whitespace
    THEN RStrip(SubSeq(s, 1, Len(s) - 1)) ELSE s

Strip(s) == RStrip(LStrip(s))

\* str.split(sep) with an explicit one-character separator
RECURSIVE Split(_, _)
Split(s, sep) ==
    IF \A i \in DOMAIN s : s[i] # sep THEN <<s>>
    ELSE LET i == CHOOSE k \in DOMAIN s :
                     s[k] = sep /\ \A m \in 1..(k - 1) : s[m] # sep
         IN <<SubSeq(s, 1, i - 1)>> \o Split(SubSeq(s, i + 1, Len(s)), sep)

\* ------------------------------------------------------------------ Dataset
\* Dataset.load_dataset: every line stripped and split on single spaces
load_dataset(seqs, lines, lang_id) ==
    seqs \o [i \in DOMAIN lines |-> <<Split(Strip(lines[i]), " "), lang_id>>]

\* ' ' in w
HasSpace(w) == \E i \in DOMAIN w : w[i] = " "

\* DictValues that keeps the words with a space
DictValuesUnfiltered(ws, lang) ==
    [i \in DOMAIN ws |-> <<Strip(ws[i]), lang>>]

\* the (word, lang) pairs appended for one side of a dictionary line
DictValues(ws, lang) ==
    LET stripped == [i \in DOMAIN ws |-> Strip(ws[i])]
        NoSpace(w) == ~HasSpace(w)
        kept == SelectSeq(stripped, NoSpace)
    IN [i \in DOMAIN kept |-> <<kept[i], lang>>]

\* one pass "for w_src in key_words": the key is created when missing and
\* the values are appended to its list
RECURSIVE AddEquivalents(_, _, _, _)
AddEquivalents(eq, key_words, key_lang, vals) ==
    IF key_words = <<>> THEN eq
    ELSE LET w == Strip(Head(key_words))
             key == <<w, key_lang>>
             old == IF key \in DOMAIN eq THEN eq[key] ELSE <<>>
             eq1 == IF HasSpace(w) THEN eq
                    ELSE [k \in DOMAIN eq \cup {key} |->
                            IF k = key THEN old \o vals ELSE eq[k]]
         IN AddEquivalents(eq1, Tail(key_words), key_lang, vals)

\* LoadDictLine that takes a comment line with a tab for an entry
LoadDictLineNoComments(eq, src, dst, raw) ==
    LET line == Strip(raw)
        parts == Split(line, "\t")
    IN IF Len(parts) < 2 THEN eq
       ELSE LET src_words == Split(parts[1], ";")
                dst_words == Split(parts[2], ";")
                eq1 == AddEquivalents(eq, src_words, src,
                                      DictValues(dst_words, dst))
            IN AddEquivalents(eq1, dst_words, dst, DictValues(src_words, src))

\* the body of the loop of Dataset.load_dict for one line of the file
LoadDictLine(eq, src, dst, raw) ==
    LET line == Strip(raw)
        parts == Split(line, "\t")
    IN IF line # <<>> /\ Head(line) = "#" THEN eq
       ELSE IF Len(parts) < 2 THEN eq
       ELSE LET src_words == Split(parts[1], ";")
                dst_words == Split(parts[2], ";")
                eq1 == AddEquivalents(eq, src_words, src,
                                      DictValues(dst_words, dst))
            IN AddEquivalents(eq1, dst_words, dst, DictValues(src_words, src))

\* Dataset.load_dict
RECURSIVE load_dict(_, _, _, _)
load_dict(eq, src, dst, lines) ==
    IF lines = <<>> THEN eq
    ELSE load_dict(LoadDictLine(eq, src, dst, Head(lines)), src, dst,
                   Tail(lines))

\* ---------------------------------------------------------- SkipgramDataset
\* every (word, lang) occurrence of the corpus, in reading order
Occurrences(seqs) ==
    Flatten([i \in DOMAIN seqs |->
               [k \in DOMAIN seqs[i][1] |-> <<seqs[i][1][k], seqs[i][2]>>]])

\* keys of a dict filled in this order (insertion order, first occurrence)
RECURSIVE DictKeys(_)
DictKeys(s) ==
    IF s = <<>> THEN <<>>
    ELSE LET init == SubSeq(s, 1, Len(s) - 1)
             e == s[Len(s)]
         IN IF \E i \in DOMAIN init : init[i] = e
            THEN DictKeys(init) ELSE Append(DictKeys(init), e)

\* w_list[(word, lang)]
w_list(seqs, key) ==
    LET occs == Occurrences(seqs)
    IN Cardinality({i \in DOMAIN occs : occs[i] = key})

\* _word_list: the (word, lang) pairs seen at least w_cutoff times
WordList(seqs, w_cutoff) ==
    LET KeepWord(key) == w_list(seqs, key) >= w_cutoff
    IN SelectSeq(DictKeys(Occurrences(seqs)), KeepWord)

InWord2Int(wl, key) == \E i \in DOMAIN wl : wl[i] = key

\* _word2int[(word, lang)], a 0-based vocabulary index
word2int(wl, key) == (CHOOSE i \in DOMAIN wl : wl[i] = key) - 1

\* the positions jj visited around position ii of a sequence of length n
WindowRange(ii, n, win_size) ==
    Range(Max(0, ii - win_size), Min(n - 1, ii + win_size + 2))

\* what the corpus pass appends to targets[source] at position ii of seq
TargetsAt(seq, lang, ii, wl, source, win_size) ==
    IF ~InWord2Int(wl, <<seq[ii + 1], lang>>) THEN <<>>
    ELSE IF word2int(wl, <<seq[ii + 1], lang>>) # source THEN <<>>
    ELSE LET IsTarget(jj) ==
                 ii # jj /\ InWord2Int(wl, <<seq[jj + 1], lang>>)
             js == SelectSeq(WindowRange(ii, Len(seq), win_size), IsTarget)
         IN [k \in DOMAIN js |-> word2int(wl, <<seq[js[k] + 1], lang>>)]

\* targets[source] after the pass over all sequences
Targets(seqs, wl, source, win_size) ==
    Flatten([i \in DOMAIN seqs |->
        Flatten([k \in DOMAIN seqs[i][1] |->
            TargetsAt(seqs[i][1], seqs[i][2], k - 1, wl, source, win_size)])])

RECURSIVE Insert(_, _)
Insert(s, e) ==
    IF s = <<>> THEN <<e>>
    ELSE IF e < Head(s) THEN <<e>> \o s
    ELSE <<Head(s)>> \o Insert(Tail(s), e)

\* sorted(list) of integers
RECURSIVE Sorted(_)
Sorted(s) == IF s = <<>> THEN <<>> ELSE Insert(Sorted(Tail(s)), Head(s))

\* occ[ii]: position of tgt_list[ii] inside its run of equal values
RECURSIVE OccAt(_, _)
OccAt(tgt_list, i) ==
    IF i > 1 /\ tgt_list[i] = tgt_list[i - 1]
    THEN OccAt(tgt_list, i - 1) + 1 ELSE 1

Occ(tgt_list) == [i \in DOMAIN tgt_list |-> OccAt(tgt_list, i)]

\* KeepBucket with a strict comparison
KeepBucketStrict(occ, ii) == ii = Len(occ) \/ occ[ii] > occ[ii + 1]

\* the test that keeps entry ii (1-based) of tgt_list
KeepBucket(occ, ii) == ii = Len(occ) \/ occ[ii] >= occ[ii + 1]

KeptPositions(tgt_list) ==
    LET occ == Occ(tgt_list)
        Kept(ii) == KeepBucket(occ, ii)
    IN SelectSeq([i \in DOMAIN tgt_list |-> i], Kept)

NewTargets(tgt_list) ==
    LET kp == KeptPositions(tgt_list) IN [k \in DOMAIN kp |-> tgt_list[kp[k]]]

\* new_occ before normalisation: the kept counts
NewOcc(tgt_list) ==
    LET kp == KeptPositions(tgt_list)
        occ == Occ(tgt_list)
    IN [k \in DOMAIN kp |-> occ[kp[k]]]

\* new_occ[ii] / total
Normalize(new_occ) ==
    LET total == SumSeq(new_occ)
    IN [k \in DOMAIN new_occ |-> FDiv(new_occ[k], total)]

\* last_prob after the first k buckets
RECURSIVE LastProb(_, _)
LastProb(probs, k) ==
    IF k = 0 THEN FZero ELSE FAdd(LastProb(probs, k - 1), probs[k])

\* Cumulate without the running last_prob
CumulateNoCarry(probs) == probs

\* fm._objects: new_occ[ii] + last_prob
Cumulate(probs) ==
    [k \in DOMAIN probs |-> FAdd(probs[k], LastProb(probs, k - 1))]

\* the FlatMap stored in _word2pos[w_index]
MakeFlatMap(targets) ==
    LET tgt_list == Sorted(targets)
    IN [keys |-> NewTargets(tgt_list),
        objects |-> Cumulate(Normalize(NewOcc(tgt_list)))]

Word2Pos(seqs, wl, win_size) ==
    [w \in DOMAIN wl |-> MakeFlatMap(Targets(seqs, wl, w - 1, win_size))]

\* TrainIdx that asks for more than one bucket
TrainIdxSeveral(w2p) ==
    LET HasProbs(w_index) == Len(w2p[w_index + 1].keys) > 1
    IN SelectSeq([i \in DOMAIN w2p |-> i - 1], HasProbs)

\* _train_idx: the vocabulary indices with a non-empty distribution
TrainIdx(w2p) ==
    LET HasProbs(w_index) == Len(w2p[w_index + 1].keys) > 0
    IN SelectSeq([i \in DOMAIN w2p |-> i - 1], HasProbs)

\* Lang2WIdx with the whole vocabulary under every language
Lang2WIdxWhole(wl) ==
    [lang \in {wl[i][2] : i \in DOMAIN wl} |-> [i \in DOMAIN wl |-> i - 1]]

\* _lang2widx: language id -> vocabulary indices, in index order
Lang2WIdx(wl) ==
    [lang \in {wl[i][2] : i \in DOMAIN wl} |->
        LET IsLang(w_index) == wl[w_index + 1][2] = lang
        IN SelectSeq([i \in DOMAIN wl |-> i - 1], IsLang)]

\* FlatMap.__contains__ (cube2/networks/alg.py): membership in the keys
InFlatMap(probs, w_idx) == \E i \in DOMAIN probs.keys : probs.keys[i] = w_idx

\* the indices of the pool that are no keys of probs
NonKeys(probs, pool) ==
    {pool[k] : k \in {j \in DOMAIN pool : ~InFlatMap(probs, pool[j])}}

\* _get_item of _pos_sample_n, with the loop variables start and end;
\* keys and probs are Python lists (0-based)
RECURSIVE GetItemLoop(_, _, _, _, _)
GetItemLoop(keys, probs, prob, start, end) ==
    IF start < end
    THEN LET mid == (start + end) \div 2
             max_prob == probs[mid + 1]
             min_prob == IF mid > 0 THEN probs[mid] ELSE FZero
         IN IF FLeq(min_prob, prob) /\ FGeq(max_prob, prob)
            THEN keys[mid + 1]
            ELSE GetItemLoop(keys, probs, prob,
                             IF FLeq(max_prob, prob) THEN mid + 1 ELSE start,
                             IF FGeq(min_prob, prob) THEN mid - 1 ELSE end)
    ELSE keys[1]

get_item(keys, probs, prob) ==
    GetItemLoop(keys, probs, prob, 0, Len(keys) - 1)

\* one pass of the loop of _get_item that moves start to mid, not past it
GetItemStepToMid(keys, probs, prob, start, end) ==
    IF start < end
    THEN LET mid == (start + end) \div 2
             max_prob == probs[mid + 1]
             min_prob == IF mid > 0 THEN probs[mid] ELSE FZero
         IN IF FLeq(min_prob, prob) /\ FGeq(max_prob, prob)
            THEN [ret |-> TRUE, key |-> keys[mid + 1],
                  start |-> start, end |-> end]
            ELSE [ret |-> FALSE, key |-> -1,
                  start |-> IF FLeq(max_prob, prob) THEN mid ELSE start,
                  end |-> IF FGeq(min_prob, prob) THEN mid - 1 ELSE end]
    ELSE [ret |-> TRUE, key |-> keys[1], start |-> start, end |-> end]

\* one pass of the loop of _get_item (lines 329-341) from (start, end), or
\* the return of line 342: whether it returns, the key, the new start, end
GetItemStep(keys, probs, prob, start, end) ==
    IF start < end
    THEN LET mid == (start + end) \div 2
             max_prob == probs[mid + 1]
             min_prob == IF mid > 0 THEN probs[mid] ELSE FZero
         IN IF FLeq(min_prob, prob) /\ FGeq(max_prob, prob)
            THEN [ret |-> TRUE, key |-> keys[mid + 1],
                  start |-> start, end |-> end]
            ELSE [ret |-> FALSE, key |-> -1,
                  start |-> IF FLeq(max_prob, prob) THEN mid + 1 ELSE start,
                  end |-> IF FGeq(min_prob, prob) THEN mid - 1 ELSE end]
    ELSE [ret |-> TRUE, key |-> keys[1], start |-> start, end |-> end]

\* NegAccept without the membership test
NegAcceptAll(samp, probs, w_idx) == Append(samp, w_idx)

\* NegAccept that takes every index once only
NegAcceptDistinct(samp, probs, w_idx) ==
    IF ~InFlatMap(probs, w_idx) /\ \A k \in DOMAIN samp : samp[k] # w_idx
    THEN Append(samp, w_idx) ELSE samp

\* the test of _neg_sample_n: samp after one draw of w_idx
NegAccept(samp, probs, w_idx) ==
    IF ~InFlatMap(probs, w_idx) THEN Append(samp, w_idx) ELSE samp

\* ------------------------------------------------------------ corpus files
\* a text line: the tokens joined by single spaces, newline-terminated
RECURSIVE JoinTokens(_)
JoinTokens(toks) ==
    IF toks = <<>> THEN <<>>
    ELSE IF Len(toks) = 1 THEN Head(toks)
    ELSE Head(toks) \o <<" ">> \o JoinTokens(Tail(toks))

TextLine(toks) == JoinTokens(toks) \o <<"\n">>

\* the token list cut into lines after the positions of breaks
RECURSIVE CutLines(_, _, _)
CutLines(toks, breaks, from) ==
    IF from > Len(toks) THEN <<>>
    ELSE LET stop == IF \E b \in breaks : b >= from
                     THEN CHOOSE b \in breaks :
                            b >= from /\ \A c \in breaks : c >= from => b <= c
                     ELSE Len(toks)
         IN <<TextLine(SubSeq(toks, from, stop))>>
              \o CutLines(toks, breaks, stop + 1)

\* every file of at most maxTok one-letter tokens on at most maxLines lines
\* (the empty file has none)
BoundedFiles(maxTok, maxLines) ==
    UNION { UNION { { CutLines([i \in 1..n |-> <<toks[i]>>], breaks, 1) :
                      breaks \in { b \in SUBSET (1..(n - 1)) :
                                     n = 0 \/ Cardinality(b) + 1 <= maxLines } } :
                    toks \in [1..n -> Letters] } :
            n \in 0..Min(maxTok, IF maxLines = 0 THEN 0 ELSE maxTok) }

TokenCount(seqs) == SumSeq([i \in DOMAIN seqs |-> Len(seqs[i][1])])

\* the letters of the corpus appear for the first time in alphabetical order
\* (every corpus is such a corpus up to renaming of the letters)
Canonical(seqs) ==
    LET chars == Flatten(Flatten([i \in DOMAIN seqs |-> seqs[i][1]]))
        First(c) == IF \E i \in DOMAIN chars : chars[i] = c
                    THEN CHOOSE i \in DOMAIN chars :
                           chars[i] = c /\ \A k \in 1..(i - 1) : chars[k] # c
                    ELSE Len(chars) + 1
    IN First("a") <= First("b") /\ First("b") <= First("c")

\* --------------------------------------------------------- batch assembler
\* for each (ww, lang) of items: x2pos/x2neg[w_index].append(len(words));
\* words.append(ww); langs.append(lang)
RECURSIVE AppendSamples(_, _, _, _)
AppendSamples(st, field, w_index, items) ==
    IF items = <<>> THEN st
    ELSE LET st1 == [st EXCEPT
                       ![field] = [@ EXCEPT ![w_index] =
                                       Append(@, Len(st.words))],
                       !.words = Append(@, Head(items)[1]),
                       !.langs = Append(@, Head(items)[2])]
         IN AppendSamples(st1, field, w_index, Tail(items))

\* dict[key] = []
SetEmpty(d, key) ==
    [k \in DOMAIN d \cup {key} |-> IF k = key THEN <<>> ELSE d[k]]

WithLang(ws, lang) == [i \in DOMAIN ws |-> <<ws[i], lang>>]

\* TrainAnchor with the negatives laid out before the sampled positives
TrainAnchorNegFirst(st, b, cnt) ==
    LET w_index == st.w_index
        st1 == [st EXCEPT !.words = Append(@, b.x[cnt + 1]),
                          !.langs = Append(@, b.l[cnt + 1]),
                          !.x2pos = SetEmpty(@, w_index),
                          !.x2neg = SetEmpty(@, w_index)]
        st2 == AppendSamples(st1, "x2neg", w_index,
                             WithLang(b.y_neg[cnt + 1], b.l[cnt + 1]))
        st3 == AppendSamples(st2, "x2pos", w_index,
                             WithLang(b.y_pos[cnt + 1], b.l[cnt + 1]))
        st4 == AppendSamples(st3, "x2pos", w_index, b.y_pos_t[cnt + 1])
    IN [st4 EXCEPT !.w_index = Len(st4.words)]

\* do_train: the body of "for word in x" for anchor cnt (0-based)
TrainAnchor(st, b, cnt) ==
    LET w_index == st.w_index
        st1 == [st EXCEPT !.words = Append(@, b.x[cnt + 1]),
                          !.langs = Append(@, b.l[cnt + 1]),
                          !.x2pos = SetEmpty(@, w_index),
                          !.x2neg = SetEmpty(@, w_index)]
        st2 == AppendSamples(st1, "x2pos", w_index,
                             WithLang(b.y_pos[cnt + 1], b.l[cnt + 1]))
        st3 == AppendSamples(st2, "x2neg", w_index,
                             WithLang(b.y_neg[cnt + 1], b.l[cnt + 1]))
        st4 == AppendSamples(st3, "x2pos", w_index, b.y_pos_t[cnt + 1])
    IN [st4 EXCEPT !.w_index = Len(st4.words)]

\* EvalAnchor that records the dictionary positives one position too far
EvalAnchorShifted(st, b, cnt) ==
    LET w_index == st.w_index
        st1 == [st EXCEPT !.words = Append(@, b.x[cnt + 1]),
                          !.langs = Append(@, b.l[cnt + 1]),
                          !.x2pos = SetEmpty(@, w_index),
                          !.x2neg = SetEmpty(@, w_index)]
        st2 == AppendSamples(st1, "x2pos", w_index,
                             WithLang(b.y_pos[cnt + 1], b.l[cnt + 1]))
        st3 == AppendSamples(st2, "x2neg", w_index,
                             WithLang(b.y_neg[cnt + 1], b.l[cnt + 1]))
        st4 == AppendSamples(st3, "x2pos", w_index, b.y_pos_t[cnt + 1])
        n == Len(b.y_pos[cnt + 1])
    IN [st4 EXCEPT !.w_index = Len(st4.words),
                   !.x2pos = [@ EXCEPT ![w_index] =
                                [k \in DOMAIN @ |->
                                   IF k > n THEN @[k] + 1 ELSE @[k]]]]

\* _eval: the body of "for word in x" for anchor cnt (0-based)
EvalAnchor(st, b, cnt) ==
    LET w_index == st.w_index
        st1 == [st EXCEPT !.words = Append(@, b.x[cnt + 1]),
                          !.langs = Append(@, b.l[cnt + 1]),
                          !.x2pos = SetEmpty(@, w_index),
                          !.x2neg = SetEmpty(@, w_index)]
        st2 == AppendSamples(st1, "x2pos", w_index,
                             WithLang(b.y_pos[cnt + 1], b.l[cnt + 1]))
        st3 == AppendSamples(st2, "x2neg", w_index,
                             WithLang(b.y_neg[cnt + 1], b.l[cnt + 1]))
        st4 == AppendSamples(st3, "x2pos", w_index, b.y_pos_t[cnt + 1])
    IN [st4 EXCEPT !.w_index = Len(st4.words)]

EmptyFlat == [words |-> <<>>, langs |-> <<>>, x2pos |-> <<>>,
              x2neg |-> <<>>, w_index |-> 0]

\* do_train lines 530-556: the flat lists and index maps of batch b
RECURSIVE TrainAssemble(_, _)
TrainAssemble(b, n) ==
    IF n = 0 THEN EmptyFlat ELSE TrainAnchor(TrainAssemble(b, n - 1), b, n - 1)

\* _eval lines 402-427
RECURSIVE EvalAssemble(_, _)
EvalAssemble(b, n) ==
    IF n = 0 THEN EmptyFlat ELSE EvalAnchor(EvalAssemble(b, n - 1), b, n - 1)

\* ---------------------------------------------------------- scenario files
\* corpus files of the sampling scenarios, as token lists per line
ScenarioCorpora ==
    { <<>>,
      << <<"a", "b", "c">>, <<"b", "c", "a">> >>,
      << <<"a", "b", "a", "c", "b">> >>,
      << <<"a", "b">> >>,
      << <<"a", "a">> >> }

ScenarioFiles ==
    { [i \in DOMAIN c |-> TextLine([k \in DOMAIN c[i] |-> <<c[i][k]>>])] :
        c \in ScenarioCorpora }

\* dictionary files: "b<TAB>a;b" and a file with a comment line, a line
\* without a second field and the entry "a<TAB>b"
DictFiles ==
    { << <<"b", "\t", "a", ";", "b", "\n">> >>,
      << <<"#", " ", "c", "\n">>, <<"a", "\n">>,
         <<"a", "\t", "b", "\n">> >> }


\* ------------------------------------------------------------------- state
VARIABLES
    pc,            \* position of the program
    sequences,     \* Dataset.sequences
    equivalents,   \* Dataset.equivalents
    num_loaded,    \* languages loaded so far (ii of do_train's loading loop)
    win_size,      \* arguments of SkipgramDataset.__init__
    w_cutoff,
    word_list,     \* SkipgramDataset._word_list
    word2pos,      \* SkipgramDataset._word2pos, a FlatMap per word
    train_idx,     \* SkipgramDataset._train_idx
    lang2widx,     \* SkipgramDataset._lang2widx
    word_id,       \* SkipgramDataset._word_id
    num_dicts,     \* dictionary files loaded so far
    batch_size,    \* argument of the running get_next_batch call
    x,             \* locals of get_next_batch: anchors,
    l,             \*   their languages,
    y_pos,         \*   positive samples (words) per anchor,
    y_pos_t,       \*   dictionary positives per anchor,
    y_neg,         \*   negative samples (words) per anchor,
    y_t,           \*   samp of the running _pos_sample_n (indices),
    y_t2,          \*   samp of the running _neg_sample_n (indices),
    rnd,           \* last value of random.random() in _pos_sample_n
    words,         \* locals of the batch assembler: flat word list,
    langs,         \*   parallel language list,
    x2pos,         \*   anchor position -> positions of its positives,
    x2neg,         \*   anchor position -> positions of its negatives,
    asm_by,        \* the function that assembled: "do_train" or "_eval"
    patience,      \* params.patience
    strain_count,  \* strain.get_count() of do_train's training set
    sdev_count,    \* sdev.get_count() of do_train's dev set
    sdev_starved,  \* sdev has a starved trainable word
    patience_left, \* locals of do_train
    epoch,
    num_batches,
    batch_idx,
    best_nll,
    nll,
    steps,         \* optimizer steps taken: identifies the parameters
    file_last,     \* parameters stored in {store}-skip.last (-1: no file)
    file_best,     \* parameters stored in {store}-skip.bestNLL
    first_at,      \* history: NLL value -> steps at its first evaluation
    prev_min,      \* history: least NLL evaluated before the last one
    last_imp_epoch, \* history: epoch of the last evaluation below all before
    wrote_best,    \* history: the last evaluation wrote {store}-skip.bestNLL
    dict_file,     \* arguments of the last load_dict call: lines of the file,
    dict_src,      \*   src,
    dict_dst,      \*   dst,
    eq_before,     \* Dataset.equivalents when that call began
    enc_state,     \* the Encodings object: "new", "computed" or "loaded"
    char2int,      \* Encodings._char2int: (key, id) pairs in insertion order
    num_langs,     \* Encodings._num_langs
    ch_cutoff,     \* argument of compute_encodings
    enc_file,      \* text of the file written by Encodings.save
    enc_saved,     \* history: the table when save was called
    md_words,      \* arguments of the last _make_data call: words,
    md_langs,      \*   langs
    x_char,        \* its results: character ids per row,
    x_case,        \*   case classes per row,
    x_lang,        \*   language ids
    att,           \* Parser.validation_step: att after the softmax, one sentence
    sl,            \*   its length in x_sent_len
    pred_heads,    \*   the decoder's result for it
    outputs,       \* results of the validation_step calls of the epoch
    language_result, \* validation_epoch_end: the sums per language
    epoch_results, \* Parser._epoch_results, per language
    res_best,      \* Parser._res, per language
    early_stop_meta_val, \* Parser._early_stop_meta_val
    saved,         \* checkpoints written by the last on_epoch_end
    val_epoch,     \* validation epochs finished
    task,          \* arguments of Trainer.__init__: the task name,
    language_codes, \*  the list of language codes,
    files,         \*   the language codes (keys) of train_files,
                   \*   dev_files and test_files, in order
    self_task,     \* Trainer.task
    args,          \* the parsed command line (Trainer.args)
    env,           \* how the module runs and what is on disk
    docs,          \* the Documents into which __init__ has loaded a file
    bound,         \* the names bound so far among those fit() passes on:
                   \*   enc, config, helper, the datasets, collate,
                   \*   callbacks, model, the loaders, the trainer
    exc            \* the exception raised, "none" so far

dsVars == <<sequences, equivalents, num_loaded, num_dicts>>
sgVars == <<win_size, w_cutoff, word_list, word2pos, train_idx, lang2widx>>
gnbVars == <<batch_size, x, l, y_pos, y_pos_t, y_neg, y_t, y_t2, rnd>>
asmVars == <<words, langs, x2pos, x2neg, asm_by>>
trVars == <<patience, strain_count, sdev_count, sdev_starved, patience_left,
            epoch, num_batches, batch_idx, best_nll, nll, steps, file_last,
            file_best>>
histVars == <<first_at, prev_min, last_imp_epoch, wrote_best>>
dictVars == <<dict_file, dict_src, dict_dst, eq_before>>
encVars == <<enc_state, char2int, num_langs, ch_cutoff, enc_file, enc_saved>>
mdVars == <<md_words, md_langs, x_char, x_case, x_lang>>
parseVars == <<att, sl, pred_heads>>
valVars == <<outputs, language_result, epoch_results, res_best,
             early_stop_meta_val, saved, val_epoch>>
fitVars == <<task, language_codes, files, self_task, args, env, docs, bound,
             exc>>
auxVars == <<dictVars, encVars, mdVars, parseVars, valVars, fitVars>>
vars == <<pc, dsVars, sgVars, word_id, gnbVars, asmVars, trVars, histVars,
          auxVars>>

\* no Trainer object yet
InitNoTrainer ==
    /\ task = "none"
    /\ language_codes = <<>>
    /\ files = <<>>
    /\ self_task = "none"
    /\ args = <<>>
    /\ env = <<>>
    /\ docs = {}
    /\ bound = {}
    /\ exc = "none"

\* no load_dict, Encodings or _make_data call yet
InitNoTools ==
    /\ dict_file = <<>>
    /\ dict_src = 0
    /\ dict_dst = 0
    /\ eq_before = <<>>
    /\ enc_state = "new"
    /\ char2int = <<>>
    /\ num_langs = 0
    /\ ch_cutoff = 0
    /\ enc_file = <<>>
    /\ enc_saved = <<>>
    /\ md_words = <<>>
    /\ md_langs = <<>>
    /\ x_char = <<>>
    /\ x_case = <<>>
    /\ x_lang = <<>>

InitTools == InitNoTools /\ InitNoTrainer

\* no Parser object yet
InitNoParser ==
    /\ outputs = <<>>
    /\ language_result = <<>>
    /\ epoch_results = <<>>
    /\ res_best = <<>>
    /\ early_stop_meta_val = 0
    /\ saved = {}
    /\ val_epoch = 0

\* no call of the operations outside the training pipeline yet
InitAux ==
    /\ InitTools
    /\ att = <<>>
    /\ sl = 0
    /\ pred_heads = <<>>
    /\ InitNoParser

\* Dataset() and no SkipgramDataset yet
InitData ==
    /\ pc = "load"
    /\ sequences = <<>>
    /\ equivalents = <<>>
    /\ num_loaded = 0
    /\ win_size = 0
    /\ w_cutoff = 0
    /\ word_list = <<>>
    /\ word2pos = <<>>
    /\ train_idx = <<>>
    /\ lang2widx = <<>>
    /\ word_id = -1
    /\ num_dicts = 0
    /\ batch_size = 0
    /\ x = <<>>
    /\ l = <<>>
    /\ y_pos = <<>>
    /\ y_pos_t = <<>>
    /\ y_neg = <<>>
    /\ y_t = <<>>
    /\ y_t2 = <<>>
    /\ rnd = FZero
    /\ words = <<>>
    /\ langs = <<>>
    /\ x2pos = <<>>
    /\ x2neg = <<>>
    /\ asm_by = "none"
    /\ patience = 0
    /\ strain_count = 0
    /\ sdev_count = 0
    /\ sdev_starved = FALSE
    /\ patience_left = 0
    /\ epoch = 0
    /\ num_batches = 0
    /\ batch_idx = 0
    /\ best_nll = 0
    /\ nll = 0
    /\ steps = 0
    /\ file_last = -1
    /\ file_best = -1
    /\ first_at = <<>>
    /\ prev_min = BestInit
    /\ last_imp_epoch = 0
    /\ wrote_best = FALSE
    /\ InitAux

\* trainset.load_dataset(train_list[ii], ii) for the next language
LoadDataset ==
    /\ pc = "load"
    /\ num_loaded < MaxLangs
    /\ \E lines \in BoundedFiles(MaxTokens - TokenCount(sequences),
                                 MaxLines - Len(sequences)) :
          /\ Canonical(load_dataset(sequences, lines, num_loaded))
          /\ sequences' = load_dataset(sequences, lines, num_loaded)
    /\ num_loaded' = num_loaded + 1
    /\ UNCHANGED <<pc, equivalents, num_dicts, sgVars, word_id, gnbVars,
                   asmVars,
                   trVars, histVars, auxVars>>

\* SkipgramDataset(dataset, encodings, win_size, w_cutoff)
Construct ==
    /\ pc = "load"
    /\ num_loaded >= 1
    /\ \E win \in 1..MaxWin, cut \in 1..MaxCutoff :
          LET wl == WordList(sequences, cut)
              w2p == Word2Pos(sequences, wl, win)
          IN /\ win_size' = win
             /\ w_cutoff' = cut
             /\ word_list' = wl
             /\ word2pos' = w2p
             /\ train_idx' = TrainIdx(w2p)
             /\ lang2widx' = Lang2WIdx(wl)
    /\ word_id' = -1
    /\ pc' = "ready"
    /\ UNCHANGED <<dsVars, gnbVars, asmVars,
                   trVars, histVars, auxVars>>

Idle == pc \in {"ready", "assembled"}

\* SkipgramDataset.reset
Reset ==
    /\ Idle
    /\ word_id' = -1
    /\ UNCHANGED <<pc, dsVars, sgVars, gnbVars, asmVars,
                   trVars, histVars, auxVars>>

\* draws with replacement instead of a permutation
ShufflesRepeating(s) == { [i \in DOMAIN s |-> s[p[i]]] : p \in [DOMAIN s -> DOMAIN s] }

\* random.shuffle: the permutations of s
Shuffles(s) ==
    { [i \in DOMAIN s |-> s[p[i]]] :
        p \in { q \in [DOMAIN s -> DOMAIN s] :
                  \A i, j \in DOMAIN s : i # j => q[i] # q[j] } }

\* SkipgramDataset.shuffle, called by do_train before the first batch
Shuffle ==
    /\ Idle
    /\ word_id = -1
    /\ train_idx' \in Shuffles(train_idx)
    /\ UNCHANGED <<pc, dsVars, win_size, w_cutoff, word_list, word2pos,
                   lang2widx, word_id, gnbVars, asmVars,
                   trVars, histVars, auxVars>>

\* shuffle() of a _train_idx short enough for its orders to be followed
ShuffleShort == Len(train_idx) <= MaxShuffle /\ Shuffle

NextBuild == LoadDataset \/ Construct \/ ShuffleShort

SpecBuild == InitData /\ [][NextBuild]_vars

\* ------------------------------------------------ sampling and assembling
\* load_dataset of a scenario file for the next language
LoadScenario ==
    /\ pc = "load"
    /\ num_loaded < MaxLangs
    /\ num_dicts = 0
    /\ \E lines \in ScenarioFiles :
          LET s == load_dataset(sequences, lines, num_loaded)
          IN /\ TokenCount(s) <= MaxTokens
             /\ Len(s) <= MaxLines
             /\ sequences' = s
    /\ num_loaded' = num_loaded + 1
    /\ UNCHANGED <<pc, equivalents, num_dicts, sgVars, word_id, gnbVars,
                   asmVars,
                   trVars, histVars, auxVars>>

\* trainset.load_dict(l_src, l_dst, file), after the corpus files
LoadDict ==
    /\ pc = "load"
    /\ num_dicts < MaxDicts
    /\ \E src \in 0..(num_loaded - 1), dst \in 0..(num_loaded - 1),
          file \in DictFiles :
          equivalents' = load_dict(equivalents, src, dst, file)
    /\ num_dicts' = num_dicts + 1
    /\ UNCHANGED <<pc, sequences, num_loaded, sgVars, word_id, gnbVars,
                   asmVars,
                   trVars, histVars, auxVars>>

\* get_next_batch lines 360-364: the call and its empty result lists; the
\* caller's flat lists of the previous batch are gone (lines 530-535)
GetNextBatch ==
    /\ Idle
    /\ \E bs \in 1..MaxBatch : batch_size' = bs
    /\ x' = <<>>
    /\ l' = <<>>
    /\ y_pos' = <<>>
    /\ y_pos_t' = <<>>
    /\ y_neg' = <<>>
    /\ y_t' = <<>>
    /\ y_t2' = <<>>
    /\ rnd' = FZero
    /\ words' = <<>>
    /\ langs' = <<>>
    /\ x2pos' = <<>>
    /\ x2neg' = <<>>
    /\ asm_by' = "none"
    /\ pc' = "gnb"
    /\ UNCHANGED <<dsVars, sgVars, word_id,
                   trVars, histVars, auxVars>>

LoopCond == Len(x) < batch_size /\ word_id < Len(train_idx) - 1

\* the anchor of the running iteration of get_next_batch
AnchorIdx == train_idx[word_id + 1]
AnchorProbs == word2pos[AnchorIdx + 1]
AnchorLang == word_list[AnchorIdx + 1][2]

\* get_next_batch lines 366-372: the next anchor
GnbAnchor ==
    /\ pc = "gnb"
    /\ LoopCond
    /\ word_id' = word_id + 1
    /\ x' = Append(x, word_list[train_idx[word_id' + 1] + 1][1])
    /\ l' = Append(l, word_list[train_idx[word_id' + 1] + 1][2])
    /\ y_t' = <<>>
    /\ y_t2' = <<>>
    /\ pc' = "pos"
    /\ UNCHANGED <<dsVars, sgVars, batch_size, y_pos, y_pos_t, y_neg, rnd,
                   asmVars,
                   trVars, histVars, auxVars>>

\* the values random.random() is drawn from: a grid of [0, 1) and the
\* cumulative probabilities below 1
Draws(probs) ==
    { FDiv(k, DrawDenom) : k \in 0..(DrawDenom - 1) }
      \cup { probs.objects[i] : i \in { k \in DOMAIN probs.objects :
                                          FLess(probs.objects[k], FOne) } }

WordsOf(idx) == [i \in DOMAIN idx |-> word_list[idx[i] + 1][1]]

\* DictPositives that looks the word up under language 0
DictPositivesLang0(word, lang_id) ==
    IF <<word, 0>> \in DOMAIN equivalents
    THEN equivalents[<<word, 0>>] ELSE <<>>

\* the dictionary positives get_next_batch appends for (word, lang_id)
DictPositives(word, lang_id) ==
    IF <<word, lang_id>> \in DOMAIN equivalents
    THEN equivalents[<<word, lang_id>>] ELSE <<>>

\* one iteration of the loop of _pos_sample_n; after the last one
\* get_next_batch lines 374-378 store the positives
PosSample ==
    /\ pc = "pos"
    /\ \E r \in Draws(AnchorProbs) :
          /\ rnd' = r
          /\ y_t' = Append(y_t, get_item(AnchorProbs.keys,
                                         AnchorProbs.objects, r))
    /\ IF Len(y_t') < NSamples
       THEN UNCHANGED <<pc, y_pos, y_pos_t>>
       ELSE /\ y_pos' = Append(y_pos, WordsOf(y_t'))
            /\ y_pos_t' = Append(y_pos_t,
                                 DictPositives(x[Len(x)], l[Len(l)]))
            /\ pc' = "neg"
    /\ UNCHANGED <<dsVars, sgVars, word_id, batch_size, x, l, y_neg, y_t2,
                   asmVars,
                   trVars, histVars, auxVars>>

\* NegPool over the whole vocabulary, whatever the language
NegPoolAll == [i \in DOMAIN word_list |-> i - 1]

\* lang_word_idx of the running _neg_sample_n call (line 381)
NegPool == lang2widx[AnchorLang]

\* one iteration of the loop of _neg_sample_n; after the last one
\* get_next_batch line 382 stores the negatives (rnd, a local of
\* _pos_sample_n, no longer exists)
NegSample ==
    /\ pc = "neg"
    /\ LET pool == NegPool
           n == Len(pool) - 1
       IN \E k \in 0..n : y_t2' = NegAccept(y_t2, AnchorProbs, pool[k + 1])
    /\ IF Len(y_t2') < NSamples
       THEN UNCHANGED <<pc, y_neg>>
       ELSE /\ y_neg' = Append(y_neg, WordsOf(y_t2'))
            /\ pc' = "gnb"
    /\ rnd' = FZero
    /\ UNCHANGED <<dsVars, sgVars, word_id, batch_size, x, l, y_pos, y_pos_t,
                   y_t, asmVars,
                   trVars, histVars, auxVars>>

\* get_next_batch line 383
GnbReturn ==
    /\ pc = "gnb"
    /\ ~LoopCond
    /\ pc' = "batch"
    /\ UNCHANGED <<dsVars, sgVars, word_id, gnbVars, asmVars,
                   trVars, histVars, auxVars>>

Batch == [x |-> x, l |-> l, y_pos |-> y_pos, y_pos_t |-> y_pos_t,
          y_neg |-> y_neg]

\* do_train lines 530-556 on the batch just returned
AssembleTrain ==
    /\ pc = "batch"
    /\ LET st == TrainAssemble(Batch, Len(x))
       IN /\ words' = st.words
          /\ langs' = st.langs
          /\ x2pos' = st.x2pos
          /\ x2neg' = st.x2neg
    /\ asm_by' = "do_train"
    /\ pc' = "assembled"
    /\ UNCHANGED <<dsVars, sgVars, word_id, gnbVars,
                   trVars, histVars, auxVars>>

\* _eval lines 402-427 on the batch just returned
AssembleEval ==
    /\ pc = "batch"
    /\ LET st == EvalAssemble(Batch, Len(x))
       IN /\ words' = st.words
          /\ langs' = st.langs
          /\ x2pos' = st.x2pos
          /\ x2neg' = st.x2neg
    /\ asm_by' = "_eval"
    /\ pc' = "assembled"
    /\ UNCHANGED <<dsVars, sgVars, word_id, gnbVars,
                   trVars, histVars, auxVars>>

NextBatch ==
    \/ LoadScenario
    \/ LoadDict
    \/ Construct
    \/ Reset
    \/ GetNextBatch
    \/ GnbAnchor
    \/ PosSample
    \/ NegSample
    \/ GnbReturn
    \/ AssembleTrain
    \/ AssembleEval

SpecBatch == InitData /\ [][NextBatch]_vars

\* ---------------------------------------------------------------- do_train
\* NumBatches with one more batch whatever the remainder
NumBatchesOneMore(count, bs) == count \div bs + 1

\* num_batches of do_train lines 520-522
NumBatches(count, bs) ==
    IF count % bs # 0 THEN count \div bs + 1 ELSE count \div bs

\* Improves that also accepts an equal loss
ImprovesOrEqual(best, v) == best >= v

\* the test "best_nll > nll" of lines 606 and 627
Improves(best, v) == best > v

\* patience_left after an evaluation (lines 612 and 633)
PatienceAfterEval(left, best, v) == IF Improves(best, v) THEN patience ELSE left

\* patience_left after the head of the while loop (line 517)
PatienceAfterHead(left) == left - 1

\* the validation losses _eval may return
NLLValues == 1..MaxNLL \cup {BestInit}

\* win_size and w_cutoff of sdev (line 498)
DevWin == 5
DevCutoff == 2

\* dev files: an empty one, "a a a" (its trainable word neighbours only
\* itself) and "b", "b", "a a a" (the trainable word a has the non-key b)
DevCorpora ==
    { <<>>,
      << <<"a", "a", "a">> >>,
      << <<"b">>, <<"b">>, <<"a", "a", "a">> >> }

DevFiles ==
    { [i \in DOMAIN c |-> TextLine([k \in DOMAIN c[i] |-> <<c[i][k]>>])] :
        c \in DevCorpora }

\* sdev = SkipgramDataset(devset, encodings, win_size=5, w_cutoff=2) for the
\* dev file lines of language 0: what _eval meets of it
SdevBuilt(lines) ==
    LET s == load_dataset(<<>>, lines, 0)
        wl == WordList(s, DevCutoff)
        w2p == Word2Pos(s, wl, DevWin)
        idx == TrainIdx(w2p)
        l2w == Lang2WIdx(wl)
    IN /\ sdev_count = Len(idx)
       /\ sdev_starved =
            (\E i \in DOMAIN idx :
                NonKeys(w2p[idx[i] + 1], l2w[wl[idx[i] + 1][2]]) = {})

\* num_batches of _eval is 0 and its last line divides by it
EvalRaises == NumBatches(sdev_count, batch_size) = 0

\* _eval draws its batches from sdev and one of its get_next_batch calls
\* meets a starved anchor: _eval does not return
EvalHangs == ~EvalRaises /\ sdev_starved


Seen == DOMAIN first_at
MinSeen == IF Seen = {} THEN BestInit
           ELSE Min(BestInit, CHOOSE v \in Seen : \A w \in Seen : v <= w)

\* the history kept of an evaluation that returned v at parameters s
Record(v, s) ==
    /\ first_at' = IF v \in Seen THEN first_at
                   ELSE [w \in Seen \cup {v} |->
                           IF w = v THEN s ELSE first_at[w]]
    /\ prev_min' = MinSeen
    /\ last_imp_epoch' = IF v < MinSeen THEN epoch ELSE last_imp_epoch

\* nll = _eval(...) and lines 601-612 / 622-633: both checkpoints
Evaluate(v) ==
    /\ nll' = v
    /\ file_last' = steps'
    /\ best_nll' = IF Improves(best_nll, v) THEN v ELSE best_nll
    /\ file_best' = IF Improves(best_nll, v) THEN steps' ELSE file_best
    /\ wrote_best' = Improves(best_nll, v)
    /\ patience_left' = PatienceAfterEval(patience_left, best_nll, v)
    /\ Record(v, steps')

\* strain = SkipgramDataset(trainset, ...) built from the sequences s
StrainBuilt(s, win, cut) ==
    LET wl == WordList(s, cut)
        w2p == Word2Pos(s, wl, win)
    IN /\ sequences = s
       /\ win_size = win
       /\ w_cutoff = cut
       /\ word_list = wl
       /\ word2pos = w2p
       /\ train_idx = TrainIdx(w2p)
       /\ lang2widx = Lang2WIdx(wl)
       /\ strain_count = Len(TrainIdx(w2p))

\* the languages of the long training set: the file "a b a" for each, which
\* gives two trainable words per language and more than EvalEvery in all
LongLangs == EvalEvery \div 2 + 1

\* strain built with win_size 1 and w_cutoff 1 from the file "a b a" loaded
\* for n languages: the words a and b of language j are the vocabulary
\* indices 2j and 2j + 1, and each has the other as its only key
StrainLong(n) ==
    /\ sequences = [k \in 1..n |-> << << <<"a">>, <<"b">>, <<"a">> >>, k - 1 >>]
    /\ win_size = 1
    /\ w_cutoff = 1
    /\ word_list = [i \in 1..(2 * n) |->
                      << IF i % 2 = 1 THEN <<"a">> ELSE <<"b">>,
                         (i - 1) \div 2 >>]
    /\ word2pos = [i \in 1..(2 * n) |->
                     [keys |-> << IF i % 2 = 1 THEN i ELSE i - 2 >>,
                      objects |-> << FOne >>]]
    /\ train_idx = [i \in 1..(2 * n) |-> i - 1]
    /\ lang2widx = [j \in 0..(n - 1) |-> << 2 * j, 2 * j + 1 >>]
    /\ strain_count = 2 * n

\* no batch drawn yet
InitNoBatch ==
    /\ word_id = -1
    /\ x = <<>>
    /\ l = <<>>
    /\ y_pos = <<>>
    /\ y_pos_t = <<>>
    /\ y_neg = <<>>
    /\ y_t = <<>>
    /\ y_t2 = <<>>
    /\ rnd = FZero
    /\ words = <<>>
    /\ langs = <<>>
    /\ x2pos = <<>>
    /\ x2neg = <<>>
    /\ asm_by = "none"
    /\ batch_idx = 0
    /\ steps = 0

\* no dictionary loaded and no evaluation yet
InitNoEval ==
    /\ equivalents = <<>>
    /\ num_dicts = 0
    /\ nll = 0
    /\ file_last = -1
    /\ file_best = -1
    /\ first_at = <<>>
    /\ prev_min = BestInit
    /\ last_imp_epoch = 0
    /\ wrote_best = FALSE
    /\ InitAux

\* the state of do_train before line 511 on a training set built from one
\* scenario corpus, for a batch_size of bss and a patience of pats
InitTrainWith(bss, pats) ==
    /\ pc = "train"
    /\ \E lines \in ScenarioFiles, win \in 1..MaxWin, cut \in 1..MaxCutoff :
          StrainBuilt(load_dataset(<<>>, lines, 0), win, cut)
    /\ num_loaded = 1
    /\ batch_size \in bss
    /\ patience \in pats
    /\ \E dev \in DevFiles : SdevBuilt(dev)
    /\ patience_left = 0
    /\ epoch = 0
    /\ num_batches = 0
    /\ best_nll = 0
    /\ InitNoBatch
    /\ InitNoEval

InitTrain == InitTrainWith(1..MaxBatch, 0..MaxPatience)

dataVars == <<dsVars, sgVars, word_id, gnbVars, asmVars, auxVars>>

\* do_train lines 511-514
DoTrainInit ==
    /\ pc = "train"
    /\ patience_left' = patience
    /\ epoch' = 1
    /\ best_nll' = BestInit
    /\ pc' = "while"
    /\ UNCHANGED <<dataVars, patience, strain_count, sdev_count, sdev_starved,
                   num_batches, batch_idx, nll, steps, file_last, file_best,
                   histVars>>

\* do_train lines 516-527: the head of an epoch, with strain.shuffle()
EpochStart ==
    /\ pc = "while"
    /\ patience_left > 0
    /\ patience_left' = PatienceAfterHead(patience_left)
    /\ num_batches' = NumBatches(Len(train_idx), batch_size)
    /\ train_idx' \in Shuffles(train_idx)
    /\ batch_idx' = 0
    /\ pc' = "for"
    /\ UNCHANGED <<dsVars, win_size, w_cutoff, word_list, word2pos, lang2widx,
                   word_id, gnbVars, asmVars, patience, strain_count,
                   sdev_count, sdev_starved, epoch, best_nll, nll, steps,
                   file_last, file_best, histVars, auxVars>>

\* the while condition of line 516 fails: do_train returns
LoopExit ==
    /\ pc = "while"
    /\ ~(patience_left > 0)
    /\ pc' = "done"
    /\ UNCHANGED <<dataVars, trVars, histVars>>

IsEvalBatch(idx) == (idx + 1) % EvalEvery = 0

\* _word_id after a call of get_next_batch(bs) that started at wid and
\* returned: it moves by bs, the end of _train_idx stops it (line 366)
WordIdAfter(wid, bs) == Min(wid + bs, Max(wid, Len(train_idx) - 1))

\* _neg_sample_n finds no sample for the anchor w_index: each index of the
\* pool of its language is a key of its distribution
StarvedIdx(w_index) ==
    NonKeys(word2pos[w_index + 1],
            lang2widx[word_list[w_index + 1][2]]) = {}

\* the 0-based position in _train_idx of the first starved anchor that a
\* call of get_next_batch(bs) from wid on meets, -1 when it meets none
FirstStarved(wid, bs) ==
    LET at == {p \in (wid + 1)..WordIdAfter(wid, bs) :
                 StarvedIdx(train_idx[p + 1])}
    IN IF at = {} THEN -1 ELSE CHOOSE p \in at : \A q \in at : p <= q

\* the lists _pos_sample_n can return for the anchor w_index
PosSamples(w_index) ==
    LET probs == word2pos[w_index + 1]
    IN [1..NSamples ->
          {get_item(probs.keys, probs.objects, r) : r \in Draws(probs)}]

\* the lists _neg_sample_n can return for the anchor w_index
NegSamples(w_index) ==
    [1..NSamples ->
        NonKeys(word2pos[w_index + 1],
                lang2widx[word_list[w_index + 1][2]])]

\* the sequences of length n whose i-th entry is taken from sets[i]
RECURSIVE OneOfEach(_, _)
OneOfEach(sets, n) ==
    IF n = 0 THEN {<<>>}
    ELSE {Append(s, e) : s \in OneOfEach(sets, n - 1), e \in sets[n]}

\* the lists of get_next_batch (lines 360-382) after the anchors at the n
\* positions of _train_idx behind the 0-based position before, with the
\* positives ps of the n anchors and the negatives ns of the first m
BatchOf(before, n, m, ps, ns) ==
    LET xs == [i \in 1..n |-> word_list[train_idx[before + i + 1] + 1][1]]
        ls == [i \in 1..n |-> word_list[train_idx[before + i + 1] + 1][2]]
    IN [x |-> xs,
        l |-> ls,
        y_pos |-> [i \in 1..n |-> WordsOf(ps[i])],
        y_pos_t |-> [i \in 1..n |-> DictPositives(xs[i], ls[i])],
        y_neg |-> [i \in 1..m |-> WordsOf(ns[i])]]

\* do_train lines 596-616, after the optimizer step of the batch batch_idx:
\* every EvalEvery-th batch evaluates. An _eval that raises ends do_train,
\* one that does not return leaves it inside the batch.
BatchEnd ==
    IF ~IsEvalBatch(batch_idx)
    THEN /\ batch_idx' = batch_idx + 1
         /\ pc' = "for"
         /\ UNCHANGED <<patience_left, best_nll, nll, file_last, file_best,
                        histVars>>
    ELSE IF EvalRaises \/ EvalHangs
    THEN /\ pc' = IF EvalRaises THEN "raised" ELSE "eval"
         /\ UNCHANGED <<batch_idx, patience_left, best_nll, nll, file_last,
                        file_best, histVars>>
    ELSE /\ \E v \in NLLValues : Evaluate(v)
         /\ batch_idx' = batch_idx + 1
         /\ pc' = "for"

\* do_train lines 528-616: one batch. get_next_batch walks on through
\* _train_idx; when it returns, the locals hold the batch and its flat
\* lists and the batch takes one optimizer step. When it meets a starved
\* anchor it stays in _neg_sample_n for ever, with the anchor appended and
\* its positives drawn.
TrainBatch ==
    /\ pc = "for"
    /\ batch_idx < num_batches
    /\ LET hang == FirstStarved(word_id, batch_size)
           after == IF hang = -1 THEN WordIdAfter(word_id, batch_size)
                    ELSE hang
           n == after - word_id
           m == IF hang = -1 THEN n ELSE n - 1
           anchor == [i \in 1..n |-> train_idx[word_id + i + 1]]
       IN /\ word_id' = after
          /\ \E ps \in OneOfEach([i \in 1..n |-> PosSamples(anchor[i])], n),
                ns \in OneOfEach([i \in 1..m |-> NegSamples(anchor[i])], m) :
                LET b == BatchOf(word_id, n, m, ps, ns)
                    st == TrainAssemble(b, n)
                IN /\ x' = b.x
                   /\ l' = b.l
                   /\ y_pos' = b.y_pos
                   /\ y_pos_t' = b.y_pos_t
                   /\ y_neg' = b.y_neg
                   /\ y_t' = IF n = 0 THEN <<>> ELSE ps[n]
                   /\ y_t2' = IF m = 0 \/ m < n THEN <<>> ELSE ns[m]
                   /\ words' = IF hang = -1 THEN st.words ELSE <<>>
                   /\ langs' = IF hang = -1 THEN st.langs ELSE <<>>
                   /\ x2pos' = IF hang = -1 THEN st.x2pos ELSE <<>>
                   /\ x2neg' = IF hang = -1 THEN st.x2neg ELSE <<>>
          /\ rnd' = FZero
          /\ asm_by' = IF hang = -1 THEN "do_train" ELSE "none"
          /\ steps' = IF hang = -1 THEN steps + 1 ELSE steps
          /\ IF hang = -1
             THEN BatchEnd
             ELSE /\ pc' = "neg"
                  /\ UNCHANGED <<batch_idx, patience_left, best_nll, nll,
                                 file_last, file_best, histVars>>
    /\ UNCHANGED <<dsVars, sgVars, batch_size, patience, strain_count,
                   sdev_count, sdev_starved, epoch, num_batches, auxVars>>

\* do_train lines 618-640: the end of an epoch, with strain.reset(). _eval
\* raises for an empty dev set and does not return for a starved one (line
\* 620); line 635 raises for an epoch without batches
EpochEnd ==
    /\ pc = "for"
    /\ batch_idx = num_batches
    /\ word_id' = -1
    /\ steps' = steps
    /\ IF EvalRaises \/ EvalHangs
       THEN /\ pc' = IF EvalRaises THEN "raised" ELSE "eval"
            /\ UNCHANGED <<patience_left, epoch, best_nll, nll, file_last,
                           file_best, histVars>>
       ELSE /\ \E v \in NLLValues : Evaluate(v)
            /\ IF num_batches = 0
               THEN pc' = "raised" /\ epoch' = epoch
               ELSE pc' = "while" /\ epoch' = epoch + 1
    /\ UNCHANGED <<dsVars, sgVars, gnbVars, asmVars, patience, strain_count,
                   sdev_count, sdev_starved, num_batches, batch_idx, auxVars>>

NextTrain ==
    \/ DoTrainInit
    \/ EpochStart
    \/ LoopExit
    \/ TrainBatch
    \/ EpochEnd

SpecTrain == InitTrain /\ [][NextTrain]_vars

\* the loop has a batch to draw: ENABLED <<TrainBatch>>_vars
HasBatch == pc = "for" /\ batch_idx < num_batches

\* every started step of do_train is eventually taken: weak fairness of
\* the steps (no two are enabled together), for TrainBatch with its
\* enabling condition written out
FairSpecTrain ==
    /\ SpecTrain
    /\ WF_vars(DoTrainInit \/ EpochStart \/ LoopExit \/ EpochEnd)
    /\ []<>(~HasBatch) \/ []<><<TrainBatch>>_vars

\* the batches of an epoch before the first one that evaluates
LongDone == EvalEvery - 1

\* do_train on the long training set with batch_size 1 and patience 1, at
\* line 528 of its first epoch when LongDone batches are done: the shuffle
\* of line 526 left the order of construction, and the locals hold the
\* batch of the anchor at position LongDone - 1 of _train_idx
InitLong ==
    /\ pc = "for"
    /\ StrainLong(LongLangs)
    /\ num_loaded = LongLangs
    /\ batch_size = 1
    /\ patience = 1
    /\ \E dev \in DevFiles : SdevBuilt(dev)
    /\ patience_left = 0
    /\ epoch = 1
    /\ num_batches = NumBatches(2 * LongLangs, 1)
    /\ best_nll = BestInit
    /\ InitNoEval
    /\ batch_idx = LongDone
    /\ steps = LongDone
    /\ word_id = LongDone - 1
    /\ \E ps \in PosSamples(train_idx[LongDone]),
          ns \in NegSamples(train_idx[LongDone]) :
          LET b == BatchOf(LongDone - 2, 1, 1, <<ps>>, <<ns>>)
              st == TrainAssemble(b, 1)
          IN /\ x = b.x
             /\ l = b.l
             /\ y_pos = b.y_pos
             /\ y_pos_t = b.y_pos_t
             /\ y_neg = b.y_neg
             /\ y_t = ps
             /\ y_t2 = ns
             /\ words = st.words
             /\ langs = st.langs
             /\ x2pos = st.x2pos
             /\ x2neg = st.x2neg
    /\ rnd = FZero
    /\ asm_by = "do_train"

\* the head of an epoch over a training set short enough for its orders to
\* be followed
EpochStartShort == Len(train_idx) <= MaxShuffle /\ EpochStart

NextTrainLong ==
    \/ DoTrainInit
    \/ EpochStartShort
    \/ LoopExit
    \/ TrainBatch
    \/ EpochEnd

\* do_train on the short training sets from its start, and on the long one
\* from the 10000th batch of its first epoch
InitTrainLong == InitTrain \/ InitLong

SpecTrainLong == InitTrainLong /\ [][NextTrainLong]_vars


TypeOK == pc \in {"load", "ready", "gnb", "pos", "neg", "batch", "assembled",
                  "train", "while", "for", "done", "enc", "val",
                  "validated", "vloop", "cb", "fitted", "raised", "eval",
                  "new", "read", "store", "built", "config", "datasets",
                  "model", "loaders", "pretrain", "run"}

\* ------------------------------------------------------------- properties
Last(s) == s[Len(s)]

\* the states in which rnd is the draw that produced the last entry of y_t
JustDrawn == pc = "pos" /\ y_t # <<>>

\* the key of the first bucket whose cumulative probability is >= r
\* (-1 when there is none)
FirstBucketKey(probs, r) ==
    LET I == { i \in DOMAIN probs.objects : FGeq(probs.objects[i], r) }
    IN IF I = {} THEN -1
       ELSE probs.keys[CHOOSE i \in I : \A k \in I : i <= k]

\* C1: for every distribution and every draw r, _get_item returns the key
\* of the first bucket whose cumulative probability is at least r.
C1_FirstBucketAtOrAboveDraw ==
    JustDrawn => Last(y_t) = FirstBucketKey(AnchorProbs, rnd)

\* C2: a draw exactly equal to the cumulative probability of bucket i makes
\* _get_item return the key of bucket i.
C2_DrawOnBoundaryReturnsBucket ==
    JustDrawn =>
      \A i \in DOMAIN AnchorProbs.objects :
         rnd = AnchorProbs.objects[i] => Last(y_t) = AnchorProbs.keys[i]

\* vocabulary index of the k-th negative sample stored for anchor i
NegIndex(i, k) == word2int(word_list, <<y_neg[i][k], l[i]>>)

\* the distribution of anchor i of the batch
ProbsOf(i) == word2pos[word2int(word_list, <<x[i], l[i]>>) + 1]

\* C3: _neg_sample_n never returns an index that is a key of the anchor's
\* neighbour distribution, neither while it collects nor in what
\* get_next_batch stores.
C3_NegativesOutsideKeys ==
    /\ pc = "neg" =>
         \A k \in DOMAIN y_t2 : ~InFlatMap(AnchorProbs, y_t2[k])
    /\ \A i \in DOMAIN y_neg :
         \A k \in DOMAIN y_neg[i] : ~InFlatMap(ProbsOf(i), NegIndex(i, k))

\* a stored list of NSamples negatives for an anchor of whose language some
\* word is a key of the distribution (a draw that had to be rejected exists)
C3_Witness ==
    /\ pc = "batch"
    /\ \E i \in DOMAIN y_neg :
         /\ Len(y_neg[i]) = NSamples
         /\ \E k \in DOMAIN lang2widx[l[i]] :
              InFlatMap(ProbsOf(i), lang2widx[l[i]][k])

Constructed == pc = "ready"

Increasing(objs) ==
    \A i \in 1..(Len(objs) - 1) : FLess(objs[i], objs[i + 1])

\* one unit in the last place of a double just below 1, in units of 2^-64
UlpBelowOne == Pow2(FracBits - Mantissa)

\* f is within n * 2^-52 of 1
NearOne(f, n) ==
    \/ f = FOne
    \/ /\ f[1] = 0
       /\ \A i \in 2..(NumLimbs - 1) : f[i] = LimbBase - 1
       /\ LimbBase - f[NumLimbs] <= 2 * n * UlpBelowOne
    \/ /\ f[1] = 1
       /\ \A i \in 2..(NumLimbs - 1) : f[i] = 0
       /\ f[NumLimbs] <= 2 * n * UlpBelowOne

\* C4 as stated: the cumulative probabilities of every non-empty
\* distribution are strictly increasing and the last one equals 1.
C4_LastEqualsOne ==
    Constructed =>
      \A w \in DOMAIN word2pos :
         LET objs == word2pos[w].objects
         IN objs # <<>> => Increasing(objs) /\ Last(objs) = FOne

\* C4: the cumulative probabilities of every non-empty distribution are
\* strictly increasing and the last one is within n * 2^-52 of 1 for a
\* distribution of n buckets (a sum of rounded doubles).
C4_LastNearOne ==
    Constructed =>
      \A w \in DOMAIN word2pos :
         LET objs == word2pos[w].objects
         IN objs # <<>> => Increasing(objs) /\ NearOne(Last(objs), Len(objs))

\* a constructed distribution of several buckets whose sum is rounded away
\* from 1
C4_Witness ==
    /\ Constructed
    /\ \E w \in DOMAIN word2pos :
         /\ Len(word2pos[w].objects) >= 2
         /\ Last(word2pos[w].objects) # FOne

Word(c) == <<c>>

\* the corpus "a b c" / "b c a" as Dataset.sequences holds it (language 0)
C5_Sequences ==
    << << <<Word("a"), Word("b"), Word("c")>>, 0 >>,
       << <<Word("b"), Word("c"), Word("a")>>, 0 >> >>

C5_Case ==
    /\ Constructed
    /\ sequences = C5_Sequences
    /\ win_size = 1
    /\ w_cutoff = 1

\* C5: on that corpus with win_size 1 and w_cutoff 1 each of a, b, c gets a
\* non-empty neighbour distribution and get_count() is 3, the number of
\* qualifying (word, language) pairs with a neighbour.
C5_ThreeWordsCounted ==
    C5_Case =>
      /\ \A c \in {"a", "b", "c"} :
            /\ InWord2Int(word_list, <<Word(c), 0>>)
            /\ word2pos[word2int(word_list, <<Word(c), 0>>) + 1].keys # <<>>
      /\ Len(word_list) = 3
      /\ Len(train_idx) = 3

\* the corpus loaded as language 0, an empty file as language 1, built
C5_Witness == C5_Case /\ num_loaded = 2

Returned == pc \in {"batch", "assembled"}

\* C6 as stated: every returned anchor carries exactly NSamples positives,
\* exactly NSamples negatives and, when it is in the equivalence
\* dictionary, exactly NSamples dictionary positives.
C6_FourOfEach ==
    Returned =>
      /\ Len(y_pos) = Len(x) /\ Len(y_neg) = Len(x) /\ Len(y_pos_t) = Len(x)
      /\ \A i \in DOMAIN x :
            /\ Len(y_pos[i]) = NSamples
            /\ Len(y_neg[i]) = NSamples
            /\ Len(y_pos_t[i]) =
                 IF <<x[i], l[i]>> \in DOMAIN equivalents
                 THEN NSamples ELSE 0

\* C6: every returned anchor carries exactly NSamples positives, exactly
\* NSamples negatives and, when it is in the equivalence dictionary, all of
\* its dictionary entries, however many (none otherwise).
C6_FourSamplesAllEquivalents ==
    Returned =>
      /\ Len(y_pos) = Len(x) /\ Len(y_neg) = Len(x) /\ Len(y_pos_t) = Len(x)
      /\ \A i \in DOMAIN x :
            /\ Len(y_pos[i]) = NSamples
            /\ Len(y_neg[i]) = NSamples
            /\ y_pos_t[i] =
                 IF <<x[i], l[i]>> \in DOMAIN equivalents
                 THEN equivalents[<<x[i], l[i]>>] ELSE <<>>

\* a returned batch with an anchor of language 1 that is in the dictionary
\* and an anchor whose dictionary entries are not NSamples many
C6_Witness ==
    /\ pc = "batch"
    /\ \E i \in DOMAIN x :
         /\ l[i] = 1
         /\ <<x[i], l[i]>> \in DOMAIN equivalents
    /\ \E i \in DOMAIN x :
         /\ <<x[i], l[i]>> \in DOMAIN equivalents
         /\ Len(y_pos_t[i]) \notin {0, NSamples}

\* 1 + |positives| + |negatives| + |dictionary positives| of anchor i
AnchorSpan(i) == 1 + Len(y_pos[i]) + Len(y_neg[i]) + Len(y_pos_t[i])

FlatLen == SumSeq([i \in DOMAIN x |-> AnchorSpan(i)])

InFlat(p) == p \in 0..(Len(words) - 1)

\* C7: in do_train and in _eval the flat word list and the language list
\* have the length of the sum over the anchors of 1 + |positives| +
\* |negatives| + |dictionary positives|, and every key and index of x2pos
\* and x2neg is a position of the flat list.
C7_FlatLengthAndBounds ==
    pc = "assembled" =>
      /\ asm_by \in {"do_train", "_eval"}
      /\ Len(words) = FlatLen
      /\ Len(langs) = FlatLen
      /\ \A a \in DOMAIN x2pos :
            InFlat(a) /\ \A k \in DOMAIN x2pos[a] : InFlat(x2pos[a][k])
      /\ \A a \in DOMAIN x2neg :
            InFlat(a) /\ \A k \in DOMAIN x2neg[a] : InFlat(x2neg[a][k])

\* _eval assembled a batch of two anchors whose last one has dictionary
\* positives
C7_Witness ==
    /\ pc = "assembled"
    /\ asm_by = "_eval"
    /\ Len(x) = 2
    /\ y_pos_t[2] # <<>>

\* 0-based position of anchor i in the flat list
AnchorPos(i) == SumSeq([k \in 1..(i - 1) |-> AnchorSpan(k)])

TrainAssembled == pc = "assembled" /\ asm_by = "do_train"

\* the key of anchor i is its own position and the positions listed for it
\* hold its samples
KeysAndSamples(i) ==
    LET a == AnchorPos(i)
        np == Len(y_pos[i])
    IN /\ a \in DOMAIN x2pos /\ a \in DOMAIN x2neg
       /\ words[a + 1] = x[i] /\ langs[a + 1] = l[i]
       /\ Len(x2pos[a]) = np + Len(y_pos_t[i])
       /\ Len(x2neg[a]) = Len(y_neg[i])
       /\ \A k \in DOMAIN x2pos[a] :
            /\ InFlat(x2pos[a][k])
            /\ words[x2pos[a][k] + 1] =
                 IF k <= np THEN y_pos[i][k] ELSE y_pos_t[i][k - np][1]
            /\ langs[x2pos[a][k] + 1] =
                 IF k <= np THEN l[i] ELSE y_pos_t[i][k - np][2]
       /\ \A k \in DOMAIN x2neg[a] :
            /\ InFlat(x2neg[a][k])
            /\ words[x2neg[a][k] + 1] = y_neg[i][k]
            /\ langs[x2neg[a][k] + 1] = l[i]

AnchorKeys == { AnchorPos(i) : i \in DOMAIN x }

\* C8 as stated: do_train lays each anchor out as anchor, positives,
\* negatives: every position of x2pos precedes every position of x2neg of
\* the same anchor, the key is the anchor's own position and the positions
\* hold the samples.
C8_PositivesBeforeNegatives ==
    TrainAssembled =>
      /\ DOMAIN x2pos = AnchorKeys /\ DOMAIN x2neg = AnchorKeys
      /\ \A i \in DOMAIN x :
            /\ KeysAndSamples(i)
            /\ \A p \in DOMAIN x2pos[AnchorPos(i)],
                  q \in DOMAIN x2neg[AnchorPos(i)] :
                  x2pos[AnchorPos(i)][p] < x2neg[AnchorPos(i)][q]

\* C8: do_train lays each anchor out as anchor, sampled positives,
\* negatives, dictionary positives: x2pos lists the sampled positives and
\* then the dictionary positives, the sampled positives precede the
\* negatives and the negatives precede the dictionary positives; the key is
\* the anchor's own position and the positions hold the samples.
C8_SampledPositivesBeforeNegatives ==
    TrainAssembled =>
      /\ DOMAIN x2pos = AnchorKeys /\ DOMAIN x2neg = AnchorKeys
      /\ \A i \in DOMAIN x :
            LET a == AnchorPos(i)
                np == Len(y_pos[i])
                nn == Len(y_neg[i])
            IN /\ KeysAndSamples(i)
               /\ \A k \in DOMAIN x2pos[a] :
                    x2pos[a][k] = IF k <= np THEN a + k ELSE a + nn + k
               /\ \A k \in DOMAIN x2neg[a] : x2neg[a][k] = a + np + k

\* do_train assembled a batch in which an anchor has dictionary positives
C8_Witness ==
    /\ TrainAssembled
    /\ \E i \in DOMAIN x : y_pos_t[i] # <<>>

Training == pc \in {"while", "for", "done"}

\* epochs whose head (line 517) has run
EpochsStarted == IF pc = "for" THEN epoch ELSE epoch - 1

\* C9 (safety part): patience_left stays within 0..patience; it is
\* patience less the epochs started since the epoch of the last improving
\* evaluation, so every improvement resets it to patience; the loop is only
\* left at an epoch boundary with patience_left = 0, exactly patience
\* epochs after the last improving one.
C9_PatienceInv ==
    Training =>
      /\ patience_left \in 0..patience
      /\ patience_left = patience - (EpochsStarted - last_imp_epoch)
      /\ pc = "done" =>
           /\ patience_left = 0
           /\ epoch - 1 = last_imp_epoch + patience
           /\ epoch > 1 => batch_idx = num_batches

\* C9: the safety part always holds and, only finitely many evaluations
\* improving (the NLL has a least value), the loop terminates: do_train
\* returns from the while test.
C9_PatienceLoop == [] C9_PatienceInv /\ <>(pc = "done")

\* the optimizer steps taken when the last evaluation ran
LastEvalSteps ==
    IF pc = "for" THEN steps - (batch_idx % EvalEvery) ELSE steps

\* C10: {store}-skip.last holds the parameters of the last evaluation,
\* whatever its NLL; {store}-skip.bestNLL was written by the last
\* evaluation exactly when its NLL was strictly below the best before it;
\* best_nll is the least of 9999 and all evaluated NLLs; bestNLL holds the
\* parameters of the first evaluation that reached that least value.
C10_Checkpoints ==
    Training =>
      /\ best_nll = MinSeen
      /\ best_nll <= prev_min
      /\ Seen = {} => file_last = -1 /\ file_best = -1
      /\ Seen # {} =>
           /\ file_last = LastEvalSteps
           /\ wrote_best <=> nll < prev_min
      /\ file_best = IF MinSeen < BestInit THEN first_at[MinSeen] ELSE -1

\* the evaluation of the 10000th batch of an epoch improved and the one at
\* the end of the epoch did not: last holds newer parameters than bestNLL
C10_Witness ==
    /\ pc = "while"
    /\ file_best = EvalEvery
    /\ file_last = steps
    /\ file_best < file_last
    /\ ~wrote_best

\* every index of the same-language pool is a key of the distribution probs
PoolCovered(probs, pool) ==
    \A k \in DOMAIN pool : InFlatMap(probs, pool[k])

\* _neg_sample_n runs for an anchor whose pool is covered by its keys
Starved == pc = "neg" /\ PoolCovered(AnchorProbs, lang2widx[AnchorLang])

\* C11: when every index of the anchor's same-language pool is a key of its
\* distribution, _neg_sample_n retries forever without collecting a sample
\* (no cap, no error), so the get_next_batch call that reached this anchor
\* never returns; no batch ever returned holds such an anchor.
C11_StarvedNeverReturns ==
    /\ [](Starved => [](pc = "neg" /\ y_t2 = <<>>))
    /\ [](Returned =>
            \A i \in DOMAIN x : ~PoolCovered(ProbsOf(i), lang2widx[l[i]]))

\* the corpus "a a" (its only trainable word neighbours itself) as language
\* 1 behind a trainable language 0: the second call of get_next_batch is
\* retrying for anchor (a, 1)
C11_Witness ==
    /\ Starved
    /\ Len(x) = 1 /\ x[1] = <<"a">> /\ l[1] = 1
    /\ AnchorProbs.keys = <<AnchorIdx>>
    /\ word_id = 1
    /\ Len(y_t) = NSamples /\ y_t2 = <<>>

\* ------------------------------------------------- load_dict on its own
MaxDictCalls == 2   \* load_dict calls in a row
MaxDictLines == 2   \* lines of a dictionary file

\* lines of dictionary files: comments (bare, with a tab, indented), lines
\* without a second field (empty, one word, a word and a trailing tab) and
\* entries (plain, mirrored, same word, lists, repeated words, words with a
\* space on either side, padded words, an empty word, a third field)
DictLines ==
    { <<"#", "\n">>,
      <<"#", "a", "\t", "b", "\n">>,
      <<" ", "#", "a", "\t", "b", "\n">>,
      <<"\n">>,
      <<"a", "\n">>,
      <<"a", "\t", "\n">>,
      <<"a", "\t", "b", "\n">>,
      <<"b", "\t", "a", "\n">>,
      <<"a", "\t", "a", "\n">>,
      <<"a", ";", "b", "\t", "a", "\n">>,
      <<"a", ";", "a", "\t", "b", "\n">>,
      <<"a", " ", "b", "\t", "a", "\n">>,
      <<"a", "\t", "a", " ", "b", "\n">>,
      <<" ", "a", "\t", "b", " ", "\n">>,
      <<"a", ";", "\t", "b", "\n">>,
      <<"a", "\t", "b", "\t", "a", "\n">> }

\* the files of 1..MaxDictLines of these lines
BoundedDictFiles ==
    UNION { [1..n -> DictLines] : n \in 1..MaxDictLines }

\* dataset.load_dict(src, dst, file) for any languages and file
LoadDictFile ==
    /\ pc = "load"
    /\ num_dicts < MaxDictCalls
    /\ \E src \in 0..(MaxLangs - 1), dst \in 0..(MaxLangs - 1),
          file \in BoundedDictFiles :
          /\ equivalents' = load_dict(equivalents, src, dst, file)
          /\ dict_file' = file
          /\ dict_src' = src
          /\ dict_dst' = dst
    /\ eq_before' = equivalents
    /\ num_dicts' = num_dicts + 1
    /\ UNCHANGED <<pc, sequences, num_loaded, sgVars, word_id, gnbVars,
                   asmVars, trVars, histVars, encVars, mdVars, parseVars, valVars, fitVars>>

NextDict == LoadDictFile

SpecDict == InitData /\ [][NextDict]_vars

\* occurrences of e in the list s
Count(s, e) == Cardinality({ i \in DOMAIN s : s[i] = e })

\* C12: after any sequence of load_dict calls the dictionary is symmetric:
\* every entry k2 of the list of k1 is itself a key and lists k1 as often
\* as k1 lists k2; no key and no entry has a space in its word.
C12_SymmetricNoSpaces ==
    \A k1 \in DOMAIN equivalents :
       /\ ~HasSpace(k1[1])
       /\ \A i \in DOMAIN equivalents[k1] :
            LET k2 == equivalents[k1][i]
            IN /\ ~HasSpace(k2[1])
               /\ k2 \in DOMAIN equivalents
               /\ Count(equivalents[k2], k1) = Count(equivalents[k1], k2)

\* two calls were made, the last one with a word that has a space, and some
\* key lists another key more than once
C12_Witness ==
    /\ num_dicts = 2
    /\ \E n \in DOMAIN dict_file :
         \E w \in { Split(Strip(dict_file[n]), "\t")[1] } : HasSpace(Strip(w))
    /\ \E k1 \in DOMAIN equivalents :
         \E i \in DOMAIN equivalents[k1] :
            /\ equivalents[k1][i] # k1
            /\ Count(equivalents[k1], equivalents[k1][i]) >= 2

\* the line starts with '#'
StartsWithHash(raw) == raw # <<>> /\ Head(raw) = "#"

\* the line has no tab-separated second field once stripped
NoSecondField(raw) == \A i \in DOMAIN Strip(raw) : Strip(raw)[i] # "\t"

SkippedLine(raw) == StartsWithHash(raw) \/ NoSecondField(raw)

EntryLine(raw) == ~SkippedLine(raw)

\* C13: load_dict leaves the dictionary unchanged for every line that starts
\* with '#' and for every line without a tab-separated second field, and
\* goes on with the later lines: the result of a call is that of the file
\* without those lines.
C13_SkippedLinesIgnored ==
    num_dicts > 0 =>
      /\ \A n \in DOMAIN dict_file :
            SkippedLine(dict_file[n]) =>
              load_dict(eq_before, dict_src, dict_dst,
                        SubSeq(dict_file, 1, n))
                = load_dict(eq_before, dict_src, dict_dst,
                            SubSeq(dict_file, 1, n - 1))
      /\ equivalents = load_dict(eq_before, dict_src, dict_dst,
                                 SelectSeq(dict_file, EntryLine))

\* a file whose first line is skipped and whose second line is an entry that
\* changed the dictionary
C13_Witness ==
    /\ num_dicts > 0
    /\ Len(dict_file) = 2
    /\ SkippedLine(dict_file[1])
    /\ EntryLine(dict_file[2])
    /\ equivalents # eq_before

\* ------------------------------------------------- Encodings and WordGram
MaxEncSeqs == 2     \* sequences of the dataset the encodings are computed on
MaxWordLen == 2     \* characters of a word
MaxChCutoff == 2    \* ch_cutoff of compute_encodings
MaxMdWords == 2     \* words of a _make_data call

\* ids of the special entries (line 115) and _make_data's literals
PadId == 0
UnkId == 1
StartId == 2
StopId == 3

\* case classes of _make_data (lines 177-192)
CaseOther == 1
CaseUpper == 2
CaseLower == 3

\* the characters of the corpora: a letter in both cases and a symbol
EncChars == {"a", "A", "\""}

\* str.lower() and str.upper() of one character
Lower(ch) == IF ch = "A" THEN "a" ELSE ch
Upper(ch) == IF ch = "a" THEN "A" ELSE ch

\* the words of 1..n characters
WordsUpTo(n) == UNION { [1..k -> EncChars] : k \in 1..n }

\* a sequence of the dataset: one word, or two words of one character
EncTokenLists ==
    { <<w>> : w \in WordsUpTo(MaxWordLen) }
      \cup { <<w1, w2>> : w1 \in WordsUpTo(1), w2 \in WordsUpTo(1) }

EncEntries == { <<toks, lang>> : toks \in EncTokenLists,
                                 lang \in 0..(MaxLangs - 1) }

EncDatasets == UNION { [1..n -> EncEntries] : n \in 0..MaxEncSeqs }

\* the keys '<PAD>', '<UNK>', 'START', 'STOP' as character sequences
PadKey == <<"<", "P", "A", "D", ">">>
UnkKey == <<"<", "U", "N", "K", ">">>
StartKey == <<"S", "T", "A", "R", "T">>
StopKey == <<"S", "T", "O", "P">>

\* the dict literal of line 115
SpecialEntries ==
    << <<PadKey, PadId>>, <<UnkKey, UnkId>>, <<StartKey, StartId>>,
       <<StopKey, StopId>> >>

\* key in d, for a dict d held as (key, value) pairs in insertion order
HasKey(d, key) == \E i \in DOMAIN d : d[i][1] = key

\* d[key]
Lookup(d, key) == d[CHOOSE i \in DOMAIN d : d[i][1] = key][2]

\* d[key] = val: a new key goes last, an old key keeps its place
DictSet(d, key, val) ==
    IF HasKey(d, key)
    THEN [i \in DOMAIN d |-> IF d[i][1] = key THEN <<key, val>> ELSE d[i]]
    ELSE Append(d, <<key, val>>)

\* the lower-cased characters of the corpus in reading order (lines 102-109)
LowerChars(seqs) ==
    LET TokenChars(tok) == [k \in DOMAIN tok |-> <<Lower(tok[k])>>]
        SeqChars(toks) == Flatten([k \in DOMAIN toks |-> TokenChars(toks[k])])
    IN Flatten([i \in DOMAIN seqs |-> SeqChars(seqs[i][1])])

\* char2count after the loop of lines 102-113
RECURSIVE CharCount(_, _)
CharCount(d, chars) ==
    IF chars = <<>> THEN d
    ELSE LET ch == Head(chars)
             d1 == IF ~HasKey(d, ch) THEN DictSet(d, ch, 1)
                   ELSE DictSet(d, ch, Lookup(d, ch) + 1)
         IN CharCount(d1, Tail(chars))

\* AddFrequent that asks for more than cutoff occurrences
RECURSIVE AddFrequentStrict(_, _, _)
AddFrequentStrict(table, counts, cutoff) ==
    IF counts = <<>> THEN table
    ELSE LET ch == Head(counts)[1]
             t1 == IF Head(counts)[2] > cutoff
                   THEN DictSet(table, ch, Len(table)) ELSE table
         IN AddFrequentStrict(t1, Tail(counts), cutoff)

\* the loop of lines 116-118 over the entries of char2count
RECURSIVE AddFrequent(_, _, _)
AddFrequent(table, counts, cutoff) ==
    IF counts = <<>> THEN table
    ELSE LET ch == Head(counts)[1]
             t1 == IF Head(counts)[2] >= cutoff
                   THEN DictSet(table, ch, Len(table)) ELSE table
         IN AddFrequent(t1, Tail(counts), cutoff)

\* _char2int after compute_encodings
ComputeChar2Int(seqs, cutoff) ==
    AddFrequent(SpecialEntries, CharCount(<<>>, LowerChars(seqs)), cutoff)

\* _num_langs after the loop of lines 102-106, from n before it
RECURSIVE ComputeNumLangs(_, _)
ComputeNumLangs(n, seqs) ==
    IF seqs = <<>> THEN n
    ELSE LET lang_id == Head(seqs)[2]
         IN ComputeNumLangs(IF lang_id + 1 > n THEN lang_id + 1 ELSE n,
                            Tail(seqs))

\* ----------------------------------------------------- json.dump / json.load
Digits == <<"0", "1", "2", "3", "4", "5", "6", "7", "8", "9">>

DigitVal(c) == (CHOOSE k \in DOMAIN Digits : Digits[k] = c) - 1

IsDigit(c) == \E k \in DOMAIN Digits : Digits[k] = c

\* the decimal text of a natural number
RECURSIVE IntToStr(_)
IntToStr(n) ==
    IF n < Len(Digits) THEN <<Digits[n + 1]>>
    ELSE IntToStr(n \div Len(Digits)) \o <<Digits[(n % Len(Digits)) + 1]>>

\* a str as JSON text: quoted, quotes and backslashes escaped
JsonString(s) ==
    <<"\"">>
      \o Flatten([i \in DOMAIN s |->
                    IF s[i] \in {"\"", "\\"} THEN <<"\\", s[i]>> ELSE <<s[i]>>])
      \o <<"\"">>

\* "key": value, ... for a dict str -> int (json's default separators)
RECURSIVE JsonMembers(_)
JsonMembers(d) ==
    IF d = <<>> THEN <<>>
    ELSE JsonString(Head(d)[1]) \o <<":", " ">> \o IntToStr(Head(d)[2])
           \o (IF Tail(d) = <<>> THEN <<>>
               ELSE <<",", " ">> \o JsonMembers(Tail(d)))

JsonMap(d) == <<"{">> \o JsonMembers(d) \o <<"}">>

NumLangsKey == <<"n", "u", "m", "_", "l", "a", "n", "g", "s">>
Char2IntKey == <<"c", "h", "a", "r", "2", "i", "n", "t">>

\* json.dump({'num_langs': n, 'char2int': d}, file) of Encodings.save
JsonDump(n, d) ==
    <<"{">> \o JsonString(NumLangsKey) \o <<":", " ">> \o IntToStr(n)
      \o <<",", " ">> \o JsonString(Char2IntKey) \o <<":", " ">> \o JsonMap(d)
      \o <<"}">>

\* the first position from i on that holds no blank
RECURSIVE SkipWs(_, _)
SkipWs(t, i) ==
    IF i <= Len(t) /\ t[i] \in Whitespace THEN SkipWs(t, i + 1) ELSE i

\* the characters of a JSON string from i (after the opening quote) to its
\* closing quote
RECURSIVE StrBody(_, _, _)
StrBody(t, i, acc) ==
    IF t[i] = "\"" THEN [val |-> acc, next |-> i + 1]
    ELSE IF t[i] = "\\" THEN StrBody(t, i + 2, Append(acc, t[i + 1]))
    ELSE StrBody(t, i + 1, Append(acc, t[i]))

ParseString(t, i) == StrBody(t, i + 1, <<>>)

RECURSIVE IntBody(_, _, _)
IntBody(t, i, acc) ==
    IF i <= Len(t) /\ IsDigit(t[i])
    THEN IntBody(t, i + 1, acc * Len(Digits) + DigitVal(t[i]))
    ELSE [val |-> acc, next |-> i]

ParseInt(t, i) == IntBody(t, i, 0)

RECURSIVE ParseValue(_, _)
RECURSIVE ParseMembers(_, _, _)

\* the members of an object from i on, added to the dict acc
ParseMembers(t, i, acc) ==
    LET key == ParseString(t, i)
        colon == SkipWs(t, key.next)
        v == ParseValue(t, SkipWs(t, colon + 1))
        acc1 == DictSet(acc, key.val, v.val)
        sep == SkipWs(t, v.next)
    IN IF t[sep] = ","
       THEN ParseMembers(t, SkipWs(t, sep + 1), acc1)
       ELSE [val |-> acc1, next |-> sep + 1]

\* an object (as a dict in the order of the text) or a number
ParseValue(t, i) ==
    IF t[i] = "{"
    THEN LET j == SkipWs(t, i + 1)
         IN IF t[j] = "}" THEN [val |-> <<>>, next |-> j + 1]
            ELSE ParseMembers(t, j, <<>>)
    ELSE ParseInt(t, i)

\* json.load(file)
JsonLoad(t) == ParseValue(t, SkipWs(t, 1)).val

\* LoadNumLangs that keeps the value of a new Encodings
LoadNumLangsFresh(json_obj) == 0

\* json_obj['num_langs'] of Encodings.load
LoadNumLangs(json_obj) == Lookup(json_obj, NumLangsKey)

\* json_obj['char2int'] of Encodings.load
LoadChar2Int(json_obj) == Lookup(json_obj, Char2IntKey)

\* ------------------------------------------------------ WordGram._make_data
\* max([len(w) for w in words]) + 2
RowWidth(ws) ==
    2 + (CHOOSE n \in { Len(ws[i]) : i \in DOMAIN ws } :
            \A i \in DOMAIN ws : Len(ws[i]) <= n)

\* CharId that leaves an unseen character at the array's initial 0
CharIdNoUnk(table, c) ==
    IF HasKey(table, <<Lower(c)>>) THEN Lookup(table, <<Lower(c)>>) ELSE PadId

\* lines 182-186: the id of character c
CharId(table, c) ==
    LET ch == Lower(c)
    IN IF HasKey(table, <<ch>>) THEN Lookup(table, <<ch>>) ELSE UnkId

\* lines 182, 187-192: the case class of character c
CaseClass(c) ==
    LET ch == Lower(c)
    IN IF Lower(ch) = Upper(ch) THEN CaseOther
       ELSE IF Lower(ch) # ch THEN CaseUpper
       ELSE CaseLower

\* row ii of x_char before the flip (0-based column jj is entry jj + 1)
CharRow(table, w, width) ==
    [col \in 1..width |->
       LET jj == col - 1
       IN IF jj >= 1 /\ jj - 1 < Len(w) THEN CharId(table, w[jj])
          ELSE IF jj = Len(w) + 1 THEN StopId
          ELSE IF jj = 0 THEN StartId
          ELSE PadId]

\* row ii of x_case before the flip
CaseRow(w, width) ==
    [col \in 1..width |->
       LET jj == col - 1
       IN IF jj >= 1 /\ jj - 1 < Len(w) THEN CaseClass(w[jj])
          ELSE IF jj = Len(w) + 1 THEN CaseOther
          ELSE IF jj = 0 THEN CaseOther
          ELSE PadId]

\* np.flip(row)
Flip(row) == [col \in DOMAIN row |-> row[Len(row) + 1 - col]]

\* the word lists of a call: one word, or a word and a one-character word
MdWordLists ==
    { <<w>> : w \in WordsUpTo(MaxWordLen) }
      \cup { <<w1, w2>> : w1 \in WordsUpTo(MaxWordLen), w2 \in WordsUpTo(1) }

\* --------------------------------------------------------------- actions
pipeVars == <<sgVars, word_id, gnbVars, asmVars, trVars, histVars>>

\* a dataset loaded, a new Encodings(), nothing else done
InitEnc ==
    /\ pc = "enc"
    /\ sequences \in EncDatasets
    /\ equivalents = <<>>
    /\ num_loaded = 0
    /\ num_dicts = 0
    /\ win_size = 0
    /\ w_cutoff = 0
    /\ word_list = <<>>
    /\ word2pos = <<>>
    /\ train_idx = <<>>
    /\ lang2widx = <<>>
    /\ word_id = -1
    /\ batch_size = 0
    /\ x = <<>>
    /\ l = <<>>
    /\ y_pos = <<>>
    /\ y_pos_t = <<>>
    /\ y_neg = <<>>
    /\ y_t = <<>>
    /\ y_t2 = <<>>
    /\ rnd = FZero
    /\ words = <<>>
    /\ langs = <<>>
    /\ x2pos = <<>>
    /\ x2neg = <<>>
    /\ asm_by = "none"
    /\ patience = 0
    /\ strain_count = 0
    /\ sdev_count = 0
    /\ sdev_starved = FALSE
    /\ patience_left = 0
    /\ epoch = 0
    /\ num_batches = 0
    /\ batch_idx = 0
    /\ best_nll = 0
    /\ nll = 0
    /\ steps = 0
    /\ file_last = -1
    /\ file_best = -1
    /\ first_at = <<>>
    /\ prev_min = BestInit
    /\ last_imp_epoch = 0
    /\ wrote_best = FALSE
    /\ InitAux

\* encodings.compute_encodings(trainset, ch_cutoff=c) on the new object
ComputeEncodings ==
    /\ pc = "enc"
    /\ enc_state = "new"
    /\ \E c \in 1..MaxChCutoff :
          /\ ch_cutoff' = c
          /\ char2int' = ComputeChar2Int(sequences, c)
    /\ num_langs' = ComputeNumLangs(num_langs, sequences)
    /\ enc_state' = "computed"
    /\ UNCHANGED <<pc, dsVars, pipeVars, dictVars, enc_file, enc_saved, mdVars,
                   parseVars, valVars, fitVars>>

\* encodings.save(file) (do_train line 495)
SaveEncodings ==
    /\ pc = "enc"
    /\ enc_state = "computed"
    /\ enc_file = <<>>
    /\ enc_file' = JsonDump(num_langs, char2int)
    /\ enc_saved' = <<char2int, num_langs>>
    /\ UNCHANGED <<pc, dsVars, pipeVars, dictVars, enc_state, char2int,
                   num_langs, ch_cutoff, mdVars, parseVars, valVars, fitVars>>

\* Encodings(filename): a new object that loads the saved file
LoadEncodings ==
    /\ pc = "enc"
    /\ enc_state = "computed"
    /\ enc_file # <<>>
    /\ md_words = <<>>
    /\ LET json_obj == JsonLoad(enc_file)
       IN /\ char2int' = LoadChar2Int(json_obj)
          /\ num_langs' = LoadNumLangs(json_obj)
    /\ enc_state' = "loaded"
    /\ UNCHANGED <<pc, dsVars, pipeVars, dictVars, ch_cutoff, enc_file,
                   enc_saved, mdVars, parseVars, valVars, fitVars>>

\* WordGram(encodings)._make_data(words, langs) with the saved encodings
MakeData ==
    /\ pc = "enc"
    /\ enc_state = "computed"
    /\ enc_file # <<>>
    /\ md_words = <<>>
    /\ \E ws \in MdWordLists, lang \in 0..(num_langs - 1) :
          LET width == RowWidth(ws)
          IN /\ md_words' = ws
             /\ md_langs' = [i \in DOMAIN ws |-> lang]
             /\ x_char' = [i \in DOMAIN ws |->
                             Flip(CharRow(char2int, ws[i], width))]
             /\ x_case' = [i \in DOMAIN ws |-> Flip(CaseRow(ws[i], width))]
             /\ x_lang' = [i \in DOMAIN ws |-> lang]
    /\ UNCHANGED <<pc, dsVars, pipeVars, dictVars, encVars, parseVars, valVars, fitVars>>

NextEnc == ComputeEncodings \/ SaveEncodings \/ LoadEncodings \/ MakeData

SpecEnc == InitEnc /\ [][NextEnc]_vars

\* occurrences in the corpus of characters whose lower-cased form is ch
TotalCount(ch) ==
    SumSeq([i \in DOMAIN sequences |->
              SumSeq([k \in DOMAIN sequences[i][1] |->
                        LET tok == sequences[i][1][k]
                        IN Cardinality({ m \in DOMAIN tok :
                                           Lower(tok[m]) = ch })])])

FoldedChars == { Lower(c) : c \in EncChars }

\* C14: after compute_encodings(dataset, ch_cutoff=c) char2int maps '<PAD>',
\* '<UNK>', 'START', 'STOP' to 0, 1, 2, 3; a case-folded character is a key
\* exactly when its total count in the corpus is >= c; the ids are 0..n-1
\* without gaps or duplicates; num_langs is the largest language id seen
\* plus 1.
C14_EncodingTable ==
    (enc_state = "computed" /\ enc_file = <<>>) =>
      /\ Len(char2int) >= Len(SpecialEntries)
      /\ SubSeq(char2int, 1, Len(SpecialEntries)) =
           << <<PadKey, 0>>, <<UnkKey, 1>>, <<StartKey, 2>>, <<StopKey, 3>> >>
      /\ \A ch \in FoldedChars :
            HasKey(char2int, <<ch>>) <=> TotalCount(ch) >= ch_cutoff
      /\ \A i \in DOMAIN char2int :
            i > Len(SpecialEntries) =>
              \E ch \in FoldedChars : char2int[i][1] = <<ch>>
      /\ { char2int[i][2] : i \in DOMAIN char2int } = 0..(Len(char2int) - 1)
      /\ \A i, j \in DOMAIN char2int :
            i # j => /\ char2int[i][1] # char2int[j][1]
                     /\ char2int[i][2] # char2int[j][2]
      /\ \A i \in DOMAIN sequences : sequences[i][2] + 1 <= num_langs
      /\ \/ sequences = <<>> /\ num_langs = 0
         \/ \E i \in DOMAIN sequences : sequences[i][2] + 1 = num_langs

\* a table computed with cutoff 2 on a corpus of two languages: the letter is
\* kept for its upper-case and lower-case occurrence together, the symbol
\* seen once is left out
C14_Witness ==
    /\ enc_state = "computed" /\ enc_file = <<>>
    /\ ch_cutoff = 2
    /\ num_langs = 2
    /\ TotalCount("a") = 2
    /\ \E i \in DOMAIN sequences : sequences[i][1] = << <<"A", "\"">> >>
    /\ HasKey(char2int, <<"a">>)
    /\ ~HasKey(char2int, <<"\"">>)

\* C15: save followed by load of the same file gives the char2int map and
\* the num_langs of the saved table; id 0 is still '<PAD>' and id 1 still
\* '<UNK>'.
C15_SaveLoadRoundTrip ==
    enc_state = "loaded" =>
      /\ char2int = enc_saved[1]
      /\ num_langs = enc_saved[2]
      /\ char2int[1] = <<PadKey, 0>>
      /\ char2int[2] = <<UnkKey, 1>>

\* a table with the quote character (escaped in the file) and two languages
\* was saved and loaded
C15_Witness ==
    /\ enc_state = "loaded"
    /\ HasKey(char2int, <<"\"">>)
    /\ HasKey(char2int, <<"a">>)
    /\ num_langs = 2

\* C16: _make_data gives every character whose lower-cased form is no key
\* of char2int the id 1 and every other character its char2int id; before
\* the final reversal position 0 of a row is START (2), the position after
\* the last character is STOP (3) and the rest is PAD (0); the rows are
\* stored reversed.
C16_MakeDataRows ==
    md_words # <<>> =>
      /\ Len(x_char) = Len(md_words)
      /\ \A i \in DOMAIN md_words :
            LET w == md_words[i]
                width == Len(x_char[i])
                At(pos) == x_char[i][width - pos]
            IN /\ \A k \in DOMAIN md_words : width >= Len(md_words[k]) + 2
               /\ \E k \in DOMAIN md_words : width = Len(md_words[k]) + 2
               /\ At(0) = 2
               /\ At(Len(w) + 1) = 3
               /\ \A jj \in 1..Len(w) :
                    At(jj) = IF HasKey(char2int, <<Lower(w[jj])>>)
                             THEN Lookup(char2int, <<Lower(w[jj])>>)
                             ELSE 1
               /\ \A pos \in (Len(w) + 2)..(width - 1) : At(pos) = 0

\* two words of different length, one with a character the table lacks and
\* an upper-case character the table has in lower case
C16_Witness ==
    /\ Len(md_words) = 2
    /\ Len(md_words[1]) > Len(md_words[2])
    /\ md_words[1][1] = "A" /\ HasKey(char2int, <<"a">>)
    /\ ~HasKey(char2int, <<md_words[1][2]>>)
    /\ x_char[1][2] = 1

\* ================================================ Parser.validation_step
MaxSentLen == 3     \* tokens of a sentence, and of the longest of its batch
MaxScore == 1       \* entries of att are 0..MaxScore

\* att of one sentence in a batch padded to m tokens: a row per token 1..m
\* (forward leaves the root's row out), a column per candidate head 0..m
AttMatrices(m) == [1..m -> [0..m -> 0..MaxScore]]

\* ---- ChuLiuEdmondsDecoder (cube3.networks.utils); its code is not among
\* the sources. validation_step reads one head per token of the sentence
\* (pred_heads[iSent][iWord], line 324): head 0 is the root that forward
\* prepends, the tokens are 1..n
HeadArrays(n) == [1..n -> 0..n]

\* the head assignments decode may return for a sentence of n tokens: any;
\* what tree they form is decided by code that is not among the sources
ChuLiuEdmonds(a, n) == HeadArrays(n)

\* self._decoder of Parser.__init__
Decoder(a, n) == ChuLiuEdmonds(a, n)

\* ---- actions
\* forward has produced att for a sentence of sl tokens in a batch whose
\* longest sentence has m tokens
InitParse ==
    /\ pc = "val"
    /\ \E m \in 1..MaxSentLen :
          /\ att \in AttMatrices(m)
          /\ sl \in 1..m
    /\ pred_heads = <<>>
    /\ sequences = <<>>
    /\ equivalents = <<>>
    /\ num_loaded = 0
    /\ num_dicts = 0
    /\ win_size = 0
    /\ w_cutoff = 0
    /\ word_list = <<>>
    /\ word2pos = <<>>
    /\ train_idx = <<>>
    /\ lang2widx = <<>>
    /\ word_id = -1
    /\ batch_size = 0
    /\ x = <<>>
    /\ l = <<>>
    /\ y_pos = <<>>
    /\ y_pos_t = <<>>
    /\ y_neg = <<>>
    /\ y_t = <<>>
    /\ y_t2 = <<>>
    /\ rnd = FZero
    /\ words = <<>>
    /\ langs = <<>>
    /\ x2pos = <<>>
    /\ x2neg = <<>>
    /\ asm_by = "none"
    /\ patience = 0
    /\ strain_count = 0
    /\ sdev_count = 0
    /\ sdev_starved = FALSE
    /\ patience_left = 0
    /\ epoch = 0
    /\ num_batches = 0
    /\ batch_idx = 0
    /\ best_nll = 0
    /\ nll = 0
    /\ steps = 0
    /\ file_last = -1
    /\ file_best = -1
    /\ first_at = <<>>
    /\ prev_min = BestInit
    /\ last_imp_epoch = 0
    /\ wrote_best = FALSE
    /\ InitTools
    /\ InitNoParser

\* pred_heads = self._decoder.decode(att, sl)
ValidationStep ==
    /\ pc = "val"
    /\ pred_heads' \in Decoder(att, sl)
    /\ pc' = "validated"
    /\ UNCHANGED <<dsVars, pipeVars, dictVars, encVars, mdVars, att, sl,
                   valVars, fitVars>>

NextParse == ValidationStep

SpecParse == InitParse /\ [][NextParse]_vars

\* ================================================= the neighbour window
\* the positions jj # ii of a sequence of length n with |ii - jj| <= win_size
SymmetricWindow(ii, n, win) ==
    LET Near(jj) == jj # ii /\ jj - ii <= win /\ ii - jj <= win
    IN SelectSeq(Range(0, n), Near)

\* the qualifying words of the symmetric window around every occurrence of
\* the qualifying word with index source
SymmetricTargets(seqs, wl, source, win) ==
    LET At(seq, lang, ii) ==
            IF ~InWord2Int(wl, <<seq[ii + 1], lang>>) THEN <<>>
            ELSE IF word2int(wl, <<seq[ii + 1], lang>>) # source THEN <<>>
            ELSE LET Qualifies(jj) == InWord2Int(wl, <<seq[jj + 1], lang>>)
                     js == SelectSeq(SymmetricWindow(ii, Len(seq), win),
                                     Qualifies)
                 IN [k \in DOMAIN js |-> word2int(wl, <<seq[js[k] + 1], lang>>)]
    IN Flatten([i \in DOMAIN seqs |->
           Flatten([k \in DOMAIN seqs[i][1] |->
               At(seqs[i][1], seqs[i][2], k - 1)])])

\* C18: for every qualifying anchor the neighbours recorded by the corpus
\* pass are exactly the qualifying words at the positions j # i of the same
\* sequence with |i - j| <= win_size, the last token included.
C18_SymmetricWindow ==
    Constructed =>
      \A w \in DOMAIN word_list :
         Sorted(Targets(sequences, word_list, w - 1, win_size))
           = Sorted(SymmetricTargets(sequences, word_list, w - 1, win_size))

\* ================================================ the neighbour buckets
\* the neighbours recorded for the word with index w_index
Recorded(w_index) == Targets(sequences, word_list, w_index, win_size)

\* the distinct values of a list of integers, ascending
Distinct(s) ==
    LET S == {s[i] : i \in DOMAIN s}
    IN [k \in 1..Cardinality(S) |->
           CHOOSE e \in S : Cardinality({f \in S : f < e}) = k - 1]

\* bucket k of the distinct neighbours d of the list t is smaller than the
\* bucket that follows it
SmallerThanNext(t, d, k) ==
    k < Len(d) /\ Count(t, d[k]) < Count(t, d[k + 1])

\* C19 as stated: a neighbour whose occurrence count is smaller than that of
\* the next distinct neighbour is pruned: it is no key of the anchor's
\* distribution.
C19_SmallerBucketPruned ==
    Constructed =>
      \A w \in DOMAIN word2pos :
         LET t == Recorded(w - 1)
             d == Distinct(t)
         IN \A k \in DOMAIN d :
               SmallerThanNext(t, d, k) =>
                  ~InFlatMap(word2pos[w], d[k])

\* C19, amended: every distinct recorded neighbour keeps exactly one bucket,
\* in ascending index order, and its probability mass is its occurrence
\* count over the number of recorded neighbours; no neighbour is pruned.
C19_EveryNeighbourKept ==
    Constructed =>
      \A w \in DOMAIN word2pos :
         LET t == Recorded(w - 1)
             d == Distinct(t)
         IN /\ word2pos[w].keys = d
            /\ word2pos[w].objects
                 = Cumulate([k \in DOMAIN d |-> FDiv(Count(t, d[k]), Len(t))])

\* an anchor with a neighbour seen less often than the next one, both kept
C19_Witness ==
    /\ Constructed
    /\ \E w \in DOMAIN word2pos :
          LET t == Recorded(w - 1)
              d == Distinct(t)
          IN /\ \E k \in DOMAIN d : SmallerThanNext(t, d, k)
             /\ word2pos[w].keys = d
             /\ Len(d) >= 2

\* ======================================================= the trainable set
\* the vocabulary indices whose distribution has at least one key
WithKeys == {w - 1 : w \in {v \in DOMAIN word2pos : word2pos[v].keys # <<>>}}

NoDuplicates(s) == \A i, j \in DOMAIN s : i # j => s[i] # s[j]

\* a step taken on a constructed dataset (in SpecBuild: shuffle)
ShuffleStep == Constructed /\ pc' = "ready"

\* C20: after construction an index is in _train_idx exactly if its
\* distribution has a key, _train_idx has no duplicates, every word has a
\* distribution (empty for a word without neighbours, construction does not
\* fail on it), and shuffle only reorders _train_idx: it keeps its entries
\* and changes nothing else of the dataset.
C20_TrainableSet ==
    /\ [](Constructed =>
            /\ {train_idx[i] : i \in DOMAIN train_idx} = WithKeys
            /\ NoDuplicates(train_idx)
            /\ Len(word2pos) = Len(word_list))
    /\ [][ShuffleStep =>
            /\ Len(train_idx') = Len(train_idx)
            /\ \A e \in WithKeys : Count(train_idx', e) = Count(train_idx, e)
            /\ UNCHANGED <<word_list, word2pos, lang2widx, word_id>>]_vars

\* a constructed dataset with a word without neighbours and a shuffled
\* _train_idx
C20_Witness ==
    /\ Constructed
    /\ \E w \in DOMAIN word2pos : word2pos[w].keys = <<>>
    /\ Len(train_idx) >= 2
    /\ train_idx[1] > train_idx[2]


\* ====================================== termination of _neg_sample_n
\* an iteration of _neg_sample_n that appends a sample
NegProgress == NegSample /\ Len(y_t2') = Len(y_t2) + 1

\* C21 as stated: _neg_sample_n returns only if the pool holds at least
\* n_samples distinct indices that are no keys of the distribution.
C21_NeedsDistinctNonKeys ==
    \A i \in DOMAIN y_neg :
       Cardinality(NonKeys(ProbsOf(i), lang2widx[l[i]])) >= NSamples

\* C21, amended: the draws repeat, so one index of the pool that is no key
\* is enough: while _neg_sample_n collects, a draw that appends a sample
\* exists exactly if the pool holds such an index, and every stored list of
\* negatives has n_samples entries, all of them such indices.
C21_OneNonKeySuffices ==
    /\ pc = "neg" =>
         (ENABLED NegProgress <=> NonKeys(AnchorProbs, NegPool) # {})
    /\ \A i \in DOMAIN y_neg :
          /\ Len(y_neg[i]) = NSamples
          /\ \A k \in DOMAIN y_neg[i] :
                NegIndex(i, k) \in NonKeys(ProbsOf(i), lang2widx[l[i]])

\* n_samples negatives stored for an anchor whose pool holds a single index
\* that is no key: the same index n_samples times
C21_Witness ==
    /\ pc = "batch"
    /\ \E i \in DOMAIN y_neg :
          /\ Cardinality(NonKeys(ProbsOf(i), lang2widx[l[i]])) = 1
          /\ Len(y_neg[i]) = NSamples
          /\ \A k \in DOMAIN y_neg[i] : y_neg[i][k] = y_neg[i][1]

\* ============================================== the per-language index
\* the lists of _lang2widx that hold the vocabulary index w_index
ListsOf(w_index) ==
    {lang \in DOMAIN lang2widx :
        \E k \in DOMAIN lang2widx[lang] : lang2widx[lang][k] = w_index}

\* C22: _lang2widx partitions the vocabulary by language: every vocabulary
\* index, trainable or not, is in the list of its own language, once, and in
\* no other list, and the lists hold nothing else; so every negative sample
\* drawn for an anchor is a vocabulary word of the anchor's language.
C22_LanguagePartition ==
    pc # "load" =>
      /\ \A w \in DOMAIN word_list :
            /\ ListsOf(w - 1) = {word_list[w][2]}
            /\ Count(lang2widx[word_list[w][2]], w - 1) = 1
      /\ \A lang \in DOMAIN lang2widx :
            \A k \in DOMAIN lang2widx[lang] :
               lang2widx[lang][k] + 1 \in DOMAIN word_list
      /\ pc = "neg" =>
            \A k \in DOMAIN y_t2 : word_list[y_t2[k] + 1][2] = AnchorLang
      /\ \A i \in DOMAIN y_neg :
            \A k \in DOMAIN y_neg[i] :
               InWord2Int(word_list, <<y_neg[i][k], l[i]>>)

\* two languages, a word that is no anchor, and a returned batch with the
\* negatives of an anchor of language 1
C22_Witness ==
    /\ pc = "batch"
    /\ Cardinality(DOMAIN lang2widx) = 2
    /\ \E w \in DOMAIN word_list :
          \A k \in DOMAIN train_idx : train_idx[k] # w - 1
    /\ \E i \in DOMAIN y_neg : l[i] = 1 /\ Len(y_neg[i]) = NSamples

\* ======================================================= the case classes
\* the case class the spec gives a character: 1 caseless, 2 upper, 3 lower
SpecCaseClass(c) ==
    IF Lower(c) = Upper(c) THEN 1 ELSE IF c # Lower(c) THEN 2 ELSE 3

\* C23: _make_data gives every character of a word its case class: 1 for a
\* caseless character, 2 for an uppercase letter, 3 for a lowercase letter;
\* an uppercase letter and its lowercase form never get the same class.
C23_CaseClasses ==
    md_words # <<>> =>
      \A i \in DOMAIN md_words :
         LET w == md_words[i]
             width == Len(x_case[i])
         IN \A jj \in 1..Len(w) :
               x_case[i][width - jj] = SpecCaseClass(w[jj])

\* ================================= Parser validation epochs (Trainer.fit)
MaxValTokens == 2   \* tokens of a validation sentence
MaxValBatches == 2  \* validation_step calls of an epoch
MaxValEpochs == 2   \* validation epochs of a fit
MaxLabel == 2       \* dependency labels are 1..MaxLabel

\* the head arrays decode returns for some att of a sentence of n tokens,
\* for every n
DecodedHeadsOfLen ==
    [n \in 1..MaxValTokens |-> UNION {Decoder(a, n) : a \in AttMatrices(n)}]

DecodedHeads(n) == DecodedHeadsOfLen[n]

\* validation_step line 325: the token counts toward uas_ok
UasOk(ph, th, iWord) == ph[iWord] = th[iWord]

\* a las_ok test that does not look at the head
LasOkLabelOnly(ph, th, pl, tl, iWord) == pl[iWord] = tl[iWord]

\* validation_step lines 325-329: the token counts toward las_ok
LasOk(ph, th, pl, tl, iWord) ==
    UasOk(ph, th, iWord) /\ pl[iWord] = tl[iWord]

ZeroAcc == [total |-> 0, uas_ok |-> 0, las_ok |-> 0]

\* language_result of validation_step for a batch of one sentence of n tokens
\* with language lang_id: ph / th the predicted and gold heads, pl / tl the
\* predicted and gold labels (the tagging counters upos_ok, xpos_ok and
\* attrs_ok are counted the same way and left out)
BatchAcc(nl, lang_id, n, ph, th, pl, tl) ==
    [k \in 1..nl |->
       IF k - 1 # lang_id THEN ZeroAcc
       ELSE [total |-> n,
             uas_ok |-> Cardinality({i \in 1..n : UasOk(ph, th, i)}),
             las_ok |-> Cardinality({i \in 1..n : LasOk(ph, th, pl, tl, i)})]]

\* validation_epoch_end lines 351-358: the sums over the outputs
RECURSIVE SumAcc(_, _)
SumAcc(outs, nl) ==
    IF outs = <<>> THEN [k \in 1..nl |-> ZeroAcc]
    ELSE LET rest == SumAcc(Tail(outs), nl)
             out == Head(outs)
         IN [k \in 1..nl |->
               [total |-> rest[k].total + out[k].total,
                uas_ok |-> rest[k].uas_ok + out[k].uas_ok,
                las_ok |-> rest[k].las_ok + out[k].las_ok]]

\* validation_epoch_end lines 374-386: the scores of a language
Scores(acc) ==
    LET total == IF acc.total = 0 THEN 1 ELSE acc.total
    IN [uas |-> FDiv(acc.uas_ok, total), las |-> FDiv(acc.las_ok, total)]

\* an improvement test that also takes an equal score
BetterOrEqual(new, old) == FLeq(old, new)

\* the test of _compute_early_stop: new > old
Better(new, old) == FLess(old, new)

\* _compute_early_stop: res with the flags of the improved scores
EarlyStopRes(res, best) ==
    [k \in DOMAIN res |->
       [uas |-> res[k].uas, las |-> res[k].las,
        uas_best |-> Better(res[k].uas, best[k].uas),
        las_best |-> Better(res[k].las, best[k].las)]]

\* _compute_early_stop: self._res afterwards
EarlyStopBest(res, best) ==
    [k \in DOMAIN res |->
       [uas |-> IF Better(res[k].uas, best[k].uas)
                THEN res[k].uas ELSE best[k].uas,
        las |-> IF Better(res[k].las, best[k].las)
                THEN res[k].las ELSE best[k].las]]

\* _compute_early_stop: the increments of self._early_stop_meta_val
EarlyStopCount(res, best) ==
    SumSeq([k \in DOMAIN res |->
              (IF Better(res[k].uas, best[k].uas) THEN 1 ELSE 0)
              + (IF Better(res[k].las, best[k].las) THEN 1 ELSE 0)])

\* PrintAndSaveCallback.on_epoch_end: the checkpoints it writes, as
\* (language index, suffix); ".last" has no language
Checkpoints(results) ==
    {<<k - 1, "uas">> : k \in {j \in DOMAIN results : results[j].uas_best}}
      \cup {<<k - 1, "las">> : k \in {j \in DOMAIN results : results[j].las_best}}
      \cup {<<-1, "last">>}

\* Parser(config, encodings, language_codes) for 1..MaxLangs languages,
\* before the first validation epoch
InitEval ==
    /\ pc = "vloop"
    /\ \E nl \in 1..MaxLangs :
          res_best = [k \in 1..nl |-> [uas |-> FZero, las |-> FZero]]
    /\ outputs = <<>>
    /\ language_result = <<>>
    /\ epoch_results = <<>>
    /\ early_stop_meta_val = 0
    /\ saved = {}
    /\ val_epoch = 0
    /\ att = <<>>
    /\ sl = 0
    /\ pred_heads = <<>>
    /\ sequences = <<>>
    /\ equivalents = <<>>
    /\ num_loaded = 0
    /\ num_dicts = 0
    /\ win_size = 0
    /\ w_cutoff = 0
    /\ word_list = <<>>
    /\ word2pos = <<>>
    /\ train_idx = <<>>
    /\ lang2widx = <<>>
    /\ word_id = -1
    /\ batch_size = 0
    /\ x = <<>>
    /\ l = <<>>
    /\ y_pos = <<>>
    /\ y_pos_t = <<>>
    /\ y_neg = <<>>
    /\ y_t = <<>>
    /\ y_t2 = <<>>
    /\ rnd = FZero
    /\ words = <<>>
    /\ langs = <<>>
    /\ x2pos = <<>>
    /\ x2neg = <<>>
    /\ asm_by = "none"
    /\ patience = 0
    /\ strain_count = 0
    /\ sdev_count = 0
    /\ sdev_starved = FALSE
    /\ patience_left = 0
    /\ epoch = 0
    /\ num_batches = 0
    /\ batch_idx = 0
    /\ best_nll = 0
    /\ nll = 0
    /\ steps = 0
    /\ file_last = -1
    /\ file_best = -1
    /\ first_at = <<>>
    /\ prev_min = BestInit
    /\ last_imp_epoch = 0
    /\ wrote_best = FALSE
    /\ InitTools

\* number of languages of the parser
NumLangs == Len(res_best)

\* validation_step on a batch of one sentence: forward, decode, the counting
\* loop; the tensors of the batch are not kept
ValidationStepCount ==
    /\ pc = "vloop"
    /\ Len(outputs) < MaxValBatches
    /\ \E n \in 1..MaxValTokens, lang_id \in 0..(NumLangs - 1) :
          \E ph \in DecodedHeads(n), th \in [1..n -> 0..n],
             pl \in [1..n -> 1..MaxLabel], tl \in [1..n -> 1..MaxLabel] :
             outputs' = Append(outputs,
                               BatchAcc(NumLangs, lang_id, n, ph, th, pl, tl))
    /\ UNCHANGED <<pc, dsVars, pipeVars, dictVars, encVars, mdVars, parseVars, fitVars,
                   language_result, epoch_results, res_best,
                   early_stop_meta_val, saved, val_epoch>>

\* validation_epoch_end(outputs), with _compute_early_stop
ValidationEpochEnd ==
    /\ pc = "vloop"
    /\ outputs # <<>>
    /\ LET sums == SumAcc(outputs, NumLangs)
           res == [k \in 1..NumLangs |-> Scores(sums[k])]
       IN /\ language_result' = sums
          /\ epoch_results' = EarlyStopRes(res, res_best)
          /\ res_best' = EarlyStopBest(res, res_best)
          /\ early_stop_meta_val' =
                early_stop_meta_val + EarlyStopCount(res, res_best)
    /\ outputs' = <<>>
    /\ pc' = "cb"
    /\ UNCHANGED <<dsVars, pipeVars, dictVars, encVars, mdVars, parseVars, fitVars,
                   saved, val_epoch>>

\* PrintAndSaveCallback.on_epoch_end, then the next epoch or the end of fit
OnEpochEnd ==
    /\ pc = "cb"
    /\ saved' = Checkpoints(epoch_results)
    /\ val_epoch' = val_epoch + 1
    /\ pc' = IF val_epoch' < MaxValEpochs THEN "vloop" ELSE "fitted"
    /\ UNCHANGED <<dsVars, pipeVars, dictVars, encVars, mdVars, parseVars, fitVars,
                   outputs, language_result, epoch_results, res_best,
                   early_stop_meta_val>>

NextEval == ValidationStepCount \/ ValidationEpochEnd \/ OnEpochEnd

SpecEval == InitEval /\ [][NextEval]_vars

\* ---- properties
Ordered(acc) == 0 <= acc.las_ok /\ acc.las_ok <= acc.uas_ok
                  /\ acc.uas_ok <= acc.total

\* C24: las_ok counts the tokens with correct head and label, uas_ok those
\* with correct head, so for every language las_ok <= uas_ok <= total in
\* every batch result and in the sums of validation_epoch_end, and the
\* reported LAS is never above the reported UAS.
C24_LasUasTotal ==
    /\ \A b \in DOMAIN outputs : \A k \in DOMAIN outputs[b] :
          Ordered(outputs[b][k])
    /\ \A k \in DOMAIN language_result : Ordered(language_result[k])
    /\ \A k \in DOMAIN epoch_results :
          FLeq(epoch_results[k].las, epoch_results[k].uas)

\* an epoch summed over two batches where a language has a token with a
\* wrong head, one with the right head and a wrong label, and one with both
\* right
C24_Witness ==
    /\ pc = "cb"
    /\ \E k \in DOMAIN language_result :
          /\ language_result[k].total >= 3
          /\ language_result[k].uas_ok = 2
          /\ language_result[k].las_ok = 1
          /\ FLess(epoch_results[k].las, epoch_results[k].uas)

\* a validation_epoch_end step and an on_epoch_end step
EpochEndStep == pc = "vloop" /\ pc' = "cb"
CallbackStep == pc = "cb" /\ pc' # "cb"

FMax(a, b) == IF FLess(a, b) THEN b ELSE a

\* the (language, metric) pairs whose score of the ending epoch is strictly
\* above the stored best, as a number
Improved(before, now) ==
    Cardinality({k \in DOMAIN now : FLess(before[k].uas, now[k].uas)})
      + Cardinality({k \in DOMAIN now : FLess(before[k].las, now[k].las)})

\* C26: _early_stop_meta_val never decreases and grows in an epoch by the
\* number of (language, uas / las) pairs strictly above the stored best;
\* _res holds the maximum seen so far, at least 0; the uas_best / las_best
\* flag of a language is set in an epoch exactly when that score strictly
\* improved, the callback saves '.<lang>.uas' / '.las' exactly for the set
\* flags, and '.last' every epoch.
C26_EarlyStopMeta ==
    /\ [][early_stop_meta_val' >= early_stop_meta_val]_vars
    /\ [](\A k \in DOMAIN res_best :
             FLeq(FZero, res_best[k].uas) /\ FLeq(FZero, res_best[k].las))
    /\ [][EpochEndStep =>
            /\ early_stop_meta_val' =
                  early_stop_meta_val + Improved(res_best, epoch_results')
            /\ DOMAIN epoch_results' = DOMAIN res_best
            /\ \A k \in DOMAIN res_best :
                  /\ res_best'[k].uas
                       = FMax(res_best[k].uas, epoch_results'[k].uas)
                  /\ res_best'[k].las
                       = FMax(res_best[k].las, epoch_results'[k].las)
                  /\ epoch_results'[k].uas_best
                       <=> FLess(res_best[k].uas, epoch_results'[k].uas)
                  /\ epoch_results'[k].las_best
                       <=> FLess(res_best[k].las, epoch_results'[k].las)]_vars
    /\ [][CallbackStep =>
            /\ <<-1, "last">> \in saved'
            /\ \A k \in DOMAIN epoch_results :
                  /\ <<k - 1, "uas">> \in saved' <=> epoch_results[k].uas_best
                  /\ <<k - 1, "las">> \in saved' <=> epoch_results[k].las_best
            /\ val_epoch' = val_epoch + 1]_vars

\* the second epoch improved the UAS of language 0 but not its LAS: three
\* improvements counted, '.uas' and '.last' saved, '.las' not
C26_Witness ==
    /\ val_epoch = 2
    /\ early_stop_meta_val = 3
    /\ epoch_results[1].uas_best /\ ~epoch_results[1].las_best
    /\ FLess(epoch_results[1].las, res_best[1].las)
    /\ saved = {<<0, "uas">>, <<-1, "last">>}

\* ============================== do_train epochs over get_next_batch
MaxEpochs == 2      \* epochs of do_train that are followed

\* do_train after lines 511-514 on a training set built from one scenario
\* corpus (language 0), for the parameters batch_size and patience
InitEpoch ==
    /\ pc = "while"
    /\ \E lines \in ScenarioFiles, win \in 1..MaxWin, cut \in 1..MaxCutoff :
          LET s == load_dataset(<<>>, lines, 0)
              wl == WordList(s, cut)
              w2p == Word2Pos(s, wl, win)
          IN /\ sequences = s
             /\ win_size = win
             /\ w_cutoff = cut
             /\ word_list = wl
             /\ word2pos = w2p
             /\ train_idx = TrainIdx(w2p)
             /\ lang2widx = Lang2WIdx(wl)
             /\ strain_count = Len(TrainIdx(w2p))
    /\ \E dev \in DevFiles : SdevBuilt(dev)
    /\ equivalents = <<>>
    /\ num_loaded = 1
    /\ num_dicts = 0
    /\ word_id = -1
    /\ batch_size \in 1..MaxBatch
    /\ x = <<>>
    /\ l = <<>>
    /\ y_pos = <<>>
    /\ y_pos_t = <<>>
    /\ y_neg = <<>>
    /\ y_t = <<>>
    /\ y_t2 = <<>>
    /\ rnd = FZero
    /\ words = <<>>
    /\ langs = <<>>
    /\ x2pos = <<>>
    /\ x2neg = <<>>
    /\ asm_by = "none"
    /\ patience \in 1..MaxPatience
    /\ patience_left = patience
    /\ epoch = 1
    /\ num_batches = 0
    /\ batch_idx = 0
    /\ best_nll = BestInit
    /\ nll = 0
    /\ steps = 0
    /\ file_last = -1
    /\ file_best = -1
    /\ first_at = <<>>
    /\ prev_min = BestInit
    /\ last_imp_epoch = 0
    /\ wrote_best = FALSE
    /\ InitAux

\* the head of an epoch, for the epochs explored
EpochHead == epoch <= MaxEpochs /\ EpochStart

\* do_train lines 528-529: the next iteration calls
\* get_next_batch(batch_size=params.batch_size) (lines 360-364)
EpochCall ==
    /\ pc = "for"
    /\ batch_idx < num_batches
    /\ x' = <<>>
    /\ l' = <<>>
    /\ y_pos' = <<>>
    /\ y_pos_t' = <<>>
    /\ y_neg' = <<>>
    /\ y_t' = <<>>
    /\ y_t2' = <<>>
    /\ rnd' = FZero
    /\ words' = <<>>
    /\ langs' = <<>>
    /\ x2pos' = <<>>
    /\ x2neg' = <<>>
    /\ asm_by' = "none"
    /\ pc' = "gnb"
    /\ UNCHANGED <<dsVars, sgVars, word_id, batch_size, trVars, histVars,
                   auxVars>>

\* do_train lines 530-616 on the batch returned: the flat lists, one
\* optimizer step, and the evaluation of every EvalEvery-th batch
EpochBatch ==
    /\ pc = "batch"
    /\ LET st == TrainAssemble(Batch, Len(x))
       IN /\ words' = st.words
          /\ langs' = st.langs
          /\ x2pos' = st.x2pos
          /\ x2neg' = st.x2neg
    /\ asm_by' = "do_train"
    /\ steps' = steps + 1
    /\ BatchEnd
    /\ UNCHANGED <<dsVars, sgVars, word_id, gnbVars, patience, strain_count,
                   sdev_count, sdev_starved, epoch, num_batches, auxVars>>


NextEpoch ==
    \/ EpochHead
    \/ EpochCall
    \/ GnbAnchor
    \/ PosSample
    \/ NegSample
    \/ GnbReturn
    \/ EpochBatch
    \/ EpochEnd
    \/ LoopExit

SpecEpoch == InitEpoch /\ [][NextEpoch]_vars

\* ---- properties
\* a get_next_batch call is running or has just returned
InCall == pc \in {"gnb", "pos", "neg", "batch"}

\* 0-based position in _train_idx of the i-th anchor of the batch
BatchPos(i) == word_id - Len(x) + i

\* C25: from reset() on the calls of get_next_batch(b) take the entries of
\* _train_idx once each, in order, b at a time and the rest in a shorter
\* last batch; at the end of _train_idx the loop takes nothing more and
\* _word_id stays, and -1 <= _word_id <= get_count() - 1 throughout. So an
\* epoch of do_train, with its ceil(count / batch_size) calls and its reset
\* at the end, uses every trainable word as an anchor once and draws no
\* empty batch.
C25_EpochCoverage ==
    /\ [](-1 <= word_id /\ word_id <= Len(train_idx) - 1)
    /\ [](InCall =>
            /\ Len(l) = Len(x)
            /\ BatchPos(1) = batch_idx * batch_size
            /\ \A i \in DOMAIN x :
                  /\ x[i] = word_list[train_idx[BatchPos(i) + 1] + 1][1]
                  /\ l[i] = word_list[train_idx[BatchPos(i) + 1] + 1][2])
    /\ [](pc = "batch" =>
            /\ x # <<>>
            /\ Len(x) = Min(batch_size,
                            Len(train_idx) - batch_idx * batch_size))
    /\ [](pc = "gnb" /\ word_id = Len(train_idx) - 1 => ~ENABLED GnbAnchor)
    /\ [][pc = "gnb" /\ pc' = "batch" => word_id' = word_id /\ x' = x]_vars
    /\ [][word_id' # word_id =>
            \/ word_id' = word_id + 1 /\ train_idx' = train_idx
            \/ /\ word_id' = -1
               /\ word_id = Len(train_idx) - 1
               /\ batch_idx = NumBatches(Len(train_idx), batch_size)]_vars
    /\ [][train_idx' # train_idx =>
            /\ word_id = -1
            /\ \A e \in 0..(Len(word_list) - 1) :
                  Count(train_idx', e) = Count(train_idx, e)]_vars

\* the second epoch over three trainable words with batch_size 2, in an
\* order that is not the order of construction: its second batch, with the
\* one word that is left
C25_Witness ==
    /\ pc = "batch"
    /\ epoch = 2
    /\ Len(train_idx) = 3 /\ train_idx # <<0, 1, 2>>
    /\ batch_size = 2
    /\ batch_idx = 1
    /\ Len(x) = 1
    /\ word_id = 2

\* ------------------------------------------------------------------------
\* cube3/trainer.py: Trainer.__init__ and Trainer.fit
\* ------------------------------------------------------------------------

\* the task names of the checks of lines 28 and 70
Tasks == {"tokenizer", "lemmatizer", "cwe", "tagger", "parser"}

\* task names given on the command line: the five above and two others
TaskArgs == Tasks \cup {"ner", ""}

\* values of --store, as sequences of characters
StorePrefixes == {<<"m">>, <<"/", "m">>, <<"d", "/">>, <<"d", "/", "m">>}

\* str.rfind(c): the last 0-based position of c in s, -1 when there is none
RFind(s, c) ==
    LET at == {i \in DOMAIN s : s[i] = c}
    IN IF at = {} THEN -1
       ELSE (CHOOSE i \in at : \A j \in at : j <= i) - 1

\* line 56-60: the prefix names a folder, not a file prefix
StoreIsFolder(s) == RFind(s, "/") > 0 /\ RFind(s, "/") >= Len(s) - 1

\* lines 80-90: the tasks for which fit() makes a config object
ConfigTasks == {"tokenizer", "tagger", "lemmatizer", "parser"}

\* lines 103-111: the names the dataset block binds for a task
DatasetNames(t) ==
    IF t \in {"tokenizer", "parser", "tagger", "lemmatizer"}
    THEN {"trainset", "devset"}
    ELSE {}

\* lines 117-159: the tasks with a block that builds callbacks and the model
ModelTasks == {"tokenizer", "tagger", "parser", "lemmatizer"}

\* values of language_codes, and of the keys of a files dictionary
CodeLists == {<<"en">>, <<"en", "fr">>}
FileCodes == {<<"en">>, <<"xx">>, <<"en", "fr">>}

\* the loads of lines 45-53 in order: the Document and the language code
FileLoads(fs) ==
    [i \in DOMAIN fs.train |-> <<"train", fs.train[i]>>]
      \o [i \in DOMAIN fs.dev |-> <<"dev", fs.dev[i]>>]
      \o [i \in DOMAIN fs.test |-> <<"test", fs.test[i]>>]

\* language_codes.index(lang_code) raises ValueError
NotListed(codes, c) == \A i \in DOMAIN codes : codes[i] # c

\* the loads that fail at language_codes.index
FailingLoads(codes, fs) ==
    {i \in DOMAIN FileLoads(fs) : NotListed(codes, FileLoads(fs)[i][2])}

\* the number of loads done: all, or those before the first that fails
LoadsDone(codes, fs) ==
    IF FailingLoads(codes, fs) = {} THEN Len(FileLoads(fs))
    ELSE (CHOOSE i \in FailingLoads(codes, fs) :
             \A j \in FailingLoads(codes, fs) : i <= j) - 1

\* the pipeline of cube2 is not running
InitNoPipeline ==
    /\ sequences = <<>>
    /\ equivalents = <<>>
    /\ num_loaded = 0
    /\ num_dicts = 0
    /\ win_size = 0
    /\ w_cutoff = 0
    /\ word_list = <<>>
    /\ word2pos = <<>>
    /\ train_idx = <<>>
    /\ lang2widx = <<>>
    /\ word_id = -1
    /\ batch_size = 0
    /\ x = <<>>
    /\ l = <<>>
    /\ y_pos = <<>>
    /\ y_pos_t = <<>>
    /\ y_neg = <<>>
    /\ y_t = <<>>
    /\ y_t2 = <<>>
    /\ rnd = FZero
    /\ words = <<>>
    /\ langs = <<>>
    /\ x2pos = <<>>
    /\ x2neg = <<>>
    /\ asm_by = "none"
    /\ patience = 0
    /\ strain_count = 0
    /\ sdev_count = 0
    /\ sdev_starved = FALSE
    /\ patience_left = 0
    /\ epoch = 0
    /\ num_batches = 0
    /\ batch_idx = 0
    /\ best_nll = 0
    /\ nll = 0
    /\ steps = 0
    /\ file_last = -1
    /\ file_best = -1
    /\ first_at = <<>>
    /\ prev_min = BestInit
    /\ last_imp_epoch = 0
    /\ wrote_best = FALSE

\* Trainer(task, ..., args) is about to be constructed. env.main tells
\* whether trainer.py runs as the main module, which is what defines the
\* module-level name args (line 225); env.last tells whether the file
\* <store>.last exists.
InitFit ==
    /\ pc = "new"
    /\ task \in TaskArgs
    /\ language_codes \in CodeLists
    /\ files \in [train : FileCodes, dev : FileCodes, test : FileCodes]
    /\ self_task = "none"
    /\ args \in [store : StorePrefixes, resume : BOOLEAN,
                 config_file : BOOLEAN]
    /\ env \in [main : BOOLEAN, last : BOOLEAN]
    /\ docs = {}
    /\ bound = {}
    /\ exc = "none"
    /\ InitNoPipeline
    /\ InitNoTools
    /\ att = <<>>
    /\ sl = 0
    /\ pred_heads = <<>>
    /\ InitNoParser

fitRest == <<dsVars, pipeVars, dictVars, encVars, mdVars, parseVars, valVars>>

\* the statement raises e
Raise(e) == pc' = "raised" /\ exc' = e

\* Trainer.__init__ lines 27-43: the task check, then the fields
TrainerInit ==
    /\ pc = "new"
    /\ IF task \notin Tasks
       THEN Raise("Exception") /\ UNCHANGED self_task
       ELSE self_task' = task /\ pc' = "read" /\ UNCHANGED exc
    /\ UNCHANGED <<task, language_codes, files, args, env, docs, bound, fitRest>>

\* Trainer.__init__ lines 45-53: the train, dev and test files are read,
\* each under the index of its code in language_codes
TrainerRead ==
    /\ pc = "read"
    /\ docs' = {FileLoads(files)[i][1] :
                  i \in 1..LoadsDone(language_codes, files)}
    /\ IF FailingLoads(language_codes, files) # {}
       THEN Raise("ValueError")
       ELSE pc' = "store" /\ UNCHANGED exc
    /\ UNCHANGED <<task, language_codes, files, self_task, args, env, bound,
                   fitRest>>

\* Trainer.__init__ lines 55-67: the folder of the store prefix
TrainerStore ==
    /\ pc = "store"
    /\ IF StoreIsFolder(args.store)
       THEN Raise("Exception")
       ELSE pc' = "built" /\ UNCHANGED exc
    /\ UNCHANGED <<task, language_codes, files, self_task, args, env, docs, bound, fitRest>>

\* fit() lines 70-78: the task check, the yaml file, the encodings
FitStart ==
    /\ pc = "built"
    /\ IF self_task \notin Tasks
       THEN Raise("Exception") /\ UNCHANGED bound
       ELSE bound' = {"enc"} /\ pc' = "config" /\ UNCHANGED exc
    /\ UNCHANGED <<task, language_codes, files, self_task, args, env, docs, fitRest>>

\* fit() lines 80-96: config is bound for four tasks and used for all
FitConfig ==
    /\ pc = "config"
    /\ LET b == IF self_task \in ConfigTasks
                THEN bound \cup {"config"} ELSE bound
       IN IF "config" \notin b
          THEN Raise("UnboundLocalError") /\ UNCHANGED bound
          ELSE bound' = b /\ pc' = "datasets" /\ UNCHANGED exc
    /\ UNCHANGED <<task, language_codes, files, self_task, args, env, docs, fitRest>>

\* fit() lines 98-113: the LM helper, the datasets, the default collate
FitDatasets ==
    /\ pc = "datasets"
    /\ bound' = bound
                \cup (IF self_task \notin {"tokenizer", "lemmatizer", "cwe"}
                      THEN {"helper"} ELSE {})
                \cup DatasetNames(self_task)
                \cup {"collate"}
    /\ pc' = "model"
    /\ UNCHANGED <<task, language_codes, files, self_task, args, env, docs, exc, fitRest>>

\* fit() lines 116-159: callbacks and model of the task; each block reads
\* args.patience from the module-level args
FitModel ==
    /\ pc = "model"
    /\ IF self_task \in ModelTasks
       THEN IF env.main
            THEN /\ bound' = bound \cup {"callbacks",
                                         "early_stopping_callback", "model"}
                 /\ pc' = "loaders"
                 /\ UNCHANGED exc
            ELSE Raise("NameError") /\ bound' = bound \cup {"callbacks"}
       ELSE /\ bound' = bound \cup {"callbacks"}
            /\ pc' = "loaders"
            /\ UNCHANGED exc
    /\ UNCHANGED <<task, language_codes, files, self_task, args, env, docs, fitRest>>

\* fit() lines 162-166: the data loaders read trainset and devset
FitLoaders ==
    /\ pc = "loaders"
    /\ IF {"trainset", "devset"} \subseteq bound
       THEN /\ bound' = bound \cup {"train_loader", "val_loader"}
            /\ pc' = "pretrain"
            /\ UNCHANGED exc
       ELSE Raise("UnboundLocalError") /\ UNCHANGED bound
    /\ UNCHANGED <<task, language_codes, files, self_task, args, env, docs, fitRest>>

\* fit() lines 169-190: the resume check and pl.Trainer(gpus=args.gpus, ...)
FitPretrain ==
    /\ pc = "pretrain"
    /\ IF args.resume /\ ~env.last
       THEN /\ Raise("Exception")
            /\ bound' = bound \cup {"resume_from_checkpoint"}
       ELSE IF ~env.main
            THEN /\ Raise("NameError")
                 /\ bound' = bound \cup {"resume_from_checkpoint", "acc"}
            ELSE /\ bound' = bound \cup {"resume_from_checkpoint", "acc",
                                         "trainer"}
                 /\ pc' = "run"
                 /\ UNCHANGED exc
    /\ UNCHANGED <<task, language_codes, files, self_task, args, env, docs, fitRest>>

\* fit() line 194: trainer.fit(model, train_loader, val_loader)
FitRun ==
    /\ pc = "run"
    /\ IF {"model", "train_loader", "val_loader"} \subseteq bound
       THEN pc' = "fitted" /\ UNCHANGED exc
       ELSE Raise("UnboundLocalError")
    /\ UNCHANGED <<task, language_codes, files, self_task, args, env, docs, bound, fitRest>>

NextFit ==
    \/ TrainerInit
    \/ TrainerRead
    \/ TrainerStore
    \/ FitStart
    \/ FitConfig
    \/ FitDatasets
    \/ FitModel
    \/ FitLoaders
    \/ FitPretrain
    \/ FitRun

SpecFit == InitFit /\ [][NextFit]_vars

\* ---- properties
\* the failures of a name that was never given a value
UnboundFailures == {"UnboundLocalError", "NameError"}

\* C27: a task outside the five names is rejected by __init__ before a
\* file is read, and for each of the five names fit() binds config,
\* trainset, devset and model and gets to trainer.fit with no failure of
\* an unbound name.
C27_AcceptedTasksTrain ==
    /\ task \notin Tasks /\ pc # "new" =>
          pc = "raised" /\ exc = "Exception" /\ docs = {}
    /\ task \in Tasks =>
          /\ exc \notin UnboundFailures
          /\ pc \in {"run", "fitted"} =>
                {"config", "trainset", "devset", "model"} \subseteq bound

\* the part of C27 that holds: the rejected names never get past line 29,
\* and the four tasks with a config reach trainer.fit with config, datasets
\* and model bound when trainer.py runs as the main module
C27_TasksWithConfigTrain ==
    /\ task \notin Tasks /\ pc # "new" =>
          pc = "raised" /\ exc = "Exception" /\ docs = {}
    /\ task \in ConfigTasks /\ env.main =>
          /\ exc \notin UnboundFailures
          /\ pc \in {"run", "fitted"} =>
                {"config", "trainset", "devset", "model"} \subseteq bound
    /\ self_task = "cwe" => pc \notin {"datasets", "model", "loaders",
                                       "pretrain", "run", "fitted"}

\* ---- properties of _get_item and _pos_sample_n
\* the passes of _get_item from (start, end), at most fuel of them: the
\* key it returns, or ok = FALSE when a pass neither returns, raises start
\* nor lowers end, or when the passes are used up
RECURSIVE GetItemRun(_, _, _, _, _, _)
GetItemRun(keys, probs, prob, start, end, fuel) ==
    LET s == GetItemStep(keys, probs, prob, start, end)
    IN IF s.ret
       THEN [ok |-> TRUE, key |-> s.key, passes |-> 1]
       ELSE IF fuel = 0 \/ ~(s.start > start \/ s.end < end)
            THEN [ok |-> FALSE, key |-> -1, passes |-> 1]
            ELSE LET r == GetItemRun(keys, probs, prob, s.start, s.end,
                                     fuel - 1)
                 IN [r EXCEPT !.passes = @ + 1]

\* _get_item(probs._keys, probs._objects, prob), pass by pass
GetItemPasses(probs, prob) ==
    GetItemRun(probs.keys, probs.objects, prob, 0, Len(probs.keys) - 1,
               Len(probs.keys))

\* C28: on the non-empty distribution of an anchor and for every draw,
\* every pass of _get_item returns, raises start or lowers end, so it ends
\* within len(keys) passes, and what it returns is a key of the
\* distribution; _pos_sample_n returns n_samples keys of probs, the same
\* key more than once where the draws fall so.
C28_GetItemReturnsKey ==
    /\ pc \in {"pos", "neg"} =>
          /\ AnchorProbs.keys # <<>>
          /\ \A r \in Draws(AnchorProbs) :
                LET run == GetItemPasses(AnchorProbs, r)
                IN /\ run.ok
                   /\ run.passes <= Len(AnchorProbs.keys)
                   /\ InFlatMap(AnchorProbs, run.key)
                   /\ run.key = get_item(AnchorProbs.keys,
                                         AnchorProbs.objects, r)
          /\ Len(y_t) <= NSamples
          /\ \A i \in DOMAIN y_t : InFlatMap(AnchorProbs, y_t[i])
          /\ pc = "neg" => Len(y_t) = NSamples
    /\ \A i \in DOMAIN y_pos :
          /\ Len(y_pos[i]) = NSamples
          /\ \A j \in DOMAIN y_pos[i] :
                \E k \in DOMAIN ProbsOf(i).keys :
                   word_list[ProbsOf(i).keys[k] + 1][1] = y_pos[i][j]

\* _pos_sample_n has returned n_samples keys with a repetition, and the
\* last draw took _get_item more than one pass
C28_Witness ==
    /\ pc = "neg"
    /\ Len(y_t) = NSamples
    /\ \E i, j \in DOMAIN y_t : i # j /\ y_t[i] = y_t[j]
    /\ Len(AnchorProbs.keys) >= 3
    /\ GetItemPasses(AnchorProbs, rnd).passes >= 2
=============================================================================
